---------------------------- MODULE Spec2Model ----------------------------
(***************************************************************************)
(* Model of the simulation engine of ldjam-46: the entity/component store  *)
(* (src/src/data.rs), its deferred update buffer (src/src/lazy.rs) and the *)
(* per-tick phase sequence of GameState::update (src/src/main.rs) with the *)
(* collision pass (src/src/collision.rs) and reproduction                   *)
(* (src/src/creature.rs).                                                  *)
(*                                                                         *)
(* Entities are 0-based indices as in the source; component arrays are     *)
(* sequences, so the slot of entity e is element e + 1.                    *)
(*                                                                         *)
(* Two specifications share the variables:                                 *)
(*   StoreSpec  the store driven by arbitrary calls of its operations;     *)
(*   Spec       the game: seeding, then update ticks phase by phase.       *)
(***************************************************************************)
EXTENDS Integers, Sequences, FiniteSets, TLC

\* ------------------------------------------------------------------ bounds

\* Cap on the number of entities (live plus buffered) the store driver creates.
MaxEntity == 3


\* The game's constants, scaled down so that a generation is a few ticks
\* long and a population a few entities large (the source's values are in
\* the comments).  Times are in units of one tick's smallest delta.

\* main.rs:45 FOOD_COUNT (30)
FOOD_COUNT == 1

\* main.rs:44 CREATURE_COUNT (100)
CREATURE_COUNT == 3

\* main.rs:86 (CREATURE_COUNT as f32 * CARNIVORE_RATIO) as usize (6)
CARNIVORES == 1

\* main.rs:30 GEN_TIME (28.8 s)
GEN_TIME == 4

\* main.rs:46 FOOD_TIMEOUT (0.4 s)
FOOD_TIMEOUT == 2

\* creature.rs:17 VEGAN_TIMEOUT (6 s)
VEGAN_TIMEOUT == 1

\* creature.rs:19 CARNIVORE_TIMEOUT (16 s)
CARNIVORE_TIMEOUT == 2

\* creature.rs:23 VEGAN_STARVE (72 s)
VEGAN_STARVE == 3

\* creature.rs:24 CARNIVORE_STARVE (24 s)
CARNIVORE_STARVE == 2

\* collision.rs:194 FOOD, the nutrition constant
FOOD == 1

\* creature.rs:16 VEGAN_CHILDREN
VEGAN_CHILDREN == 3

\* creature.rs:18 CARNIVORE_CHILDREN
CARNIVORE_CHILDREN == 1

\* The delta of a tick (timer::delta) is one of 1..MaxDelta.
MaxDelta == 1

\* Generation resets a run goes through.
MaxGeneration == 1

\* ------------------------------------------------------- store: data model

\* Option<T> in a component slot: None is the empty sequence, Some(t) the
\* one-element sequence holding t.
None == << >>

Some(t) == << t >>

\* The outcomes of an operation that may panic.
NoPanic == "none"
MissingComponent == "entity doesn't have component"
OutOfBounds == "index out of bounds"

\* The component arrays of GameData, in the order of the struct's fields
\* (the order add_entity pushes them and commit clears them).
ColumnOrder ==
    << "creatures", "foods", "positions", "velocities", "directions",
       "bodies", "draw", "nns", "inputs", "outputs", "desired" >>

Columns == { ColumnOrder[i] : i \in 1..Len(ColumnOrder) }

\* The component arrays of LazyUpdate: the struct has no `desired` array.
LazyColumns ==
    { "creatures", "foods", "positions", "velocities", "directions",
      "bodies", "draw", "nns", "inputs", "outputs" }

\* LazyUpdate::new
LazyUpdateNew ==
    [ remove |-> << >>, entity |-> 0,
      creatures |-> << >>, foods |-> << >>, positions |-> << >>,
      velocities |-> << >>, directions |-> << >>, bodies |-> << >>,
      draw |-> << >>, nns |-> << >>, inputs |-> << >>, outputs |-> << >> ]

\* GameData::new
GameDataNew ==
    [ entity |-> 0, delete |-> {},
      creatures |-> << >>, foods |-> << >>, positions |-> << >>,
      velocities |-> << >>, directions |-> << >>, bodies |-> << >>,
      draw |-> << >>, nns |-> << >>, inputs |-> << >>, outputs |-> << >>,
      desired |-> << >>,
      lazy |-> LazyUpdateNew ]

\* The elements of a sequence.
Range(s) == { s[i] : i \in 1..Len(s) }

\* ------------------------------------------------------- store: operations

\* Mutant of add_entity: the counter is handed out but not incremented.
add_entity_without_increment(d) ==
    [ data |-> [ f \in DOMAIN d |->
                   IF f \in Columns THEN Append(d[f], None) ELSE d[f] ],
      e |-> d.entity ]

\* GameData::add_entity: push None on every component array, hand out the
\* counter as the new index, increment the counter.
add_entity(d) ==
    [ data |-> [ f \in DOMAIN d |->
                   IF f \in Columns THEN Append(d[f], None)
                   ELSE IF f = "entity" THEN d.entity + 1
                   ELSE d[f] ],
      e |-> d.entity ]

\* LazyUpdate::add_entity: the same on the buffer's ten arrays.
lazy_add_entity(lz) ==
    [ lazy |-> [ f \in DOMAIN lz |->
                   IF f \in LazyColumns THEN Append(lz[f], None)
                   ELSE IF f = "entity" THEN lz.entity + 1
                   ELSE lz[f] ],
      e |-> lz.entity ]

\* Mutant of lazy_remove: the entity is not queued.
lazy_remove_dropping(lz, e) == lz

\* LazyUpdate::remove
lazy_remove(lz, e) == [ lz EXCEPT !.remove = Append(@, e) ]

\* Mutant of delete: the entity is not added to the deletion set.
delete_forgetting(d, e) == d

\* GameData::delete: marks only, touches no array.
delete(d, e) == [ d EXCEPT !.delete = @ \cup {e} ]

\* Mutant of has: the pending-deletion set is not consulted.
has_ignoring_delete(d, c, e) == d[c][e + 1] # None

\* Has<T> for GameData (one impl per component type, all alike).
has(d, c, e) ==
    IF e \in d.delete THEN FALSE ELSE d[c][e + 1] # None

\* Mutant of index_panic: an empty slot yields a value instead of a panic.
index_panic_defaulting(d, c, e) ==
    IF e >= Len(d[c]) THEN OutOfBounds ELSE NoPanic

\* Index / IndexMut for GameData: the panic, if any, of data[e.component::<T>()].
\* Vec indexing panics out of bounds, expect() panics on None.
index_panic(d, c, e) ==
    IF e >= Len(d[c]) THEN OutOfBounds
    ELSE IF d[c][e + 1] = None THEN MissingComponent
    ELSE NoPanic

\* Insert<T> for GameData: self.<array>[e.idx] = Some(t).
insert(d, c, e, t) ==
    IF e >= Len(d[c])
    THEN [ data |-> d, panic |-> OutOfBounds ]
    ELSE [ data |-> [ d EXCEPT ![c][e + 1] = Some(t) ], panic |-> NoPanic ]

\* Insert<T> for LazyUpdate.
lazy_insert(lz, c, e, t) ==
    IF e >= Len(lz[c])
    THEN [ lazy |-> lz, panic |-> OutOfBounds ]
    ELSE [ lazy |-> [ lz EXCEPT ![c][e + 1] = Some(t) ], panic |-> NoPanic ]

\* Mutant of commit_created: the range starts one past the counter.
commit_created_off_by_one(d) ==
    [ i \in 1..d.lazy.entity |-> d.entity + i ]

\* commit, lines 83-87: the indices entity .. entity + delta - 1.
commit_created(d) ==
    [ i \in 1..d.lazy.entity |-> d.entity + i - 1 ]

\* Mutant of commit_append: the buffer is copied, not drained.
commit_append_keeping_buffer(d) ==
    [ f \in DOMAIN d |->
        IF f = "entity" THEN d.entity + d.lazy.entity
        ELSE IF f \in LazyColumns THEN d[f] \o d.lazy[f]
        ELSE d[f] ]

\* commit, lines 88-100: the counter advanced, the buffer's counter reset,
\* every live array extended by the drained buffer array.  The buffer has
\* no `desired` array, so nothing is appended to `desired`.
commit_append(d) ==
    [ f \in DOMAIN d |->
        IF f = "entity" THEN d.entity + d.lazy.entity
        ELSE IF f \in LazyColumns THEN d[f] \o d.lazy[f]
        ELSE IF f = "lazy"
             THEN [ g \in DOMAIN d.lazy |->
                      IF g = "entity" THEN 0
                      ELSE IF g \in LazyColumns THEN << >>
                      ELSE d.lazy[g] ]
        ELSE d[f] ]

\* commit, lines 102-112 for one queued entity: clear its slot array by
\* array, in field order; an index past the end of an array panics there,
\* with the arrays before it already cleared.
RECURSIVE clear_slots(_, _, _)
clear_slots(d, e, i) ==
    IF i > Len(ColumnOrder) THEN [ data |-> d, panic |-> NoPanic ]
    ELSE LET c == ColumnOrder[i] IN
         IF e >= Len(d[c]) THEN [ data |-> d, panic |-> OutOfBounds ]
         ELSE clear_slots([ d EXCEPT ![c][e + 1] = None ], e, i + 1)

\* Mutant of commit_remove: only the head of the removal queue is processed.
commit_remove_head_only(d, queue, removed) ==
    IF queue = << >>
    THEN [ data |-> d, removed |-> removed, panic |-> NoPanic ]
    ELSE LET r == clear_slots(d, Head(queue), 1) IN
         [ data |-> r.data,
           removed |-> IF r.panic = NoPanic THEN << Head(queue) >> ELSE << >>,
           panic |-> r.panic ]

\* commit, lines 101-114: drain the removal queue in order.
RECURSIVE commit_remove(_, _, _)
commit_remove(d, queue, removed) ==
    IF queue = << >>
    THEN [ data |-> d, removed |-> removed, panic |-> NoPanic ]
    ELSE LET r == clear_slots(d, Head(queue), 1) IN
         IF r.panic # NoPanic
         THEN [ data |-> r.data, removed |-> removed, panic |-> r.panic ]
         ELSE commit_remove(r.data, Tail(queue), Append(removed, Head(queue)))

\* Mutant of commit: the deletion set is emptied with the removal queue.
commit_clearing_delete(d) ==
    LET created == commit_created(d)
        a == commit_append(d)
        r == commit_remove([ a EXCEPT !.lazy.remove = << >> ],
                           d.lazy.remove, << >>)
    IN [ data |-> [ r.data EXCEPT !.delete = {} ], created |-> created,
         removed |-> r.removed, panic |-> r.panic ]

\* Mutant of commit: the removal queue is processed but not emptied.
commit_keeping_queue(d) ==
    LET created == commit_created(d)
        a == commit_append(d)
        r == commit_remove(a, d.lazy.remove, << >>)
    IN [ data |-> r.data, created |-> created, removed |-> r.removed,
         panic |-> r.panic ]

\* GameData::commit
commit(d) ==
    LET created == commit_created(d)
        a == commit_append(d)
        r == commit_remove([ a EXCEPT !.lazy.remove = << >> ],
                           d.lazy.remove, << >>)
    IN [ data |-> r.data, created |-> created, removed |-> r.removed,
         panic |-> r.panic ]

\* --------------------------------------------------------------- variables

VARIABLES
    data,       \* GameData
    panic,      \* NoPanic, or the message of the panic that ended the run
    op,         \* the call performed last: "commit" with the lists it
                \* returned, "index" for a read or write through Index /
                \* IndexMut, "call" for any other operation
    marked,     \* history: the entities marked for deletion since the last commit
    generation, \* GameState::generation
    time,       \* GameState::time
    food_timeout, \* GameState::food_timeout
    foods,      \* GameState::foods
    creatures,  \* GameState::creatures
    pc,         \* where GameState::update stands
    ia, ib,     \* physics_system: positions of the outer and inner loop
    fresh,      \* history: the indices handed out by the last step, in order
    handed,     \* history: << generation, index >> for every index handed out
    touched,    \* history: the entities whose components the last step indexed
    contact,    \* history: what the last round of the pair loop found
    stale,      \* history: some index touched an entity in the deletion set
    phases,     \* history: the phases the current tick has finished
    effects     \* history: what the rounds of the pair loop have done in the
                \* current tick, in order: << "eat", eater, eaten >> or
                \* << "mate", a, b >>

gvars == << generation, time, food_timeout, foods, creatures, pc, ia, ib,
            fresh, handed, touched, contact, stale, phases, effects >>

vars == << data, panic, op, marked, generation, time, food_timeout, foods,
           creatures, pc, ia, ib, fresh, handed, touched, contact, stale,
           phases, effects >>

Call(name) ==
    [ name |-> name, created |-> << >>, removed |-> << >>, args |-> << >>,
      manifold |-> None, result |-> None ]

\* ------------------------------------------------------------ store driver

StoreInit ==
    /\ data = GameDataNew
    /\ panic = NoPanic
    /\ op = Call("new")
    /\ marked = {}
    /\ generation = 0
    /\ time = 0
    /\ food_timeout = 0
    /\ foods = << >>
    /\ creatures = << >>
    /\ pc = "store"
    /\ ia = 0
    /\ ib = 0
    /\ fresh = << >>
    /\ handed = {}
    /\ touched = {}
    /\ contact = "skipped"
    /\ stale = FALSE
    /\ phases = << >>
    /\ effects = << >>

\* The arrays the driver inserts into; every array is created, extended and
\* cleared by add_entity and commit whatever this choice.
DriverColumns == { "creatures", "desired" }

\* The component value the driver inserts: which value a slot holds plays no
\* part in the control flow of the store, only whether the slot is None.
Values == { "t" }

\* The handles the program holds: indices returned by add_entity or commit.
Entities(d) == 0..(d.entity - 1)

CallAddEntity ==
    /\ UNCHANGED gvars
    /\ panic = NoPanic
    /\ data.entity + data.lazy.entity < MaxEntity
    /\ data' = add_entity(data).data
    /\ op' = Call("call")
    /\ UNCHANGED << effects, panic, marked >>

CallInsert ==
    /\ UNCHANGED gvars
    /\ panic = NoPanic
    /\ \E e \in Entities(data), c \in DriverColumns, t \in Values :
          /\ data' = insert(data, c, e, t).data
          /\ panic' = insert(data, c, e, t).panic
          /\ op' = Call("call")
    /\ UNCHANGED marked

CallLazyAddEntity ==
    /\ UNCHANGED gvars
    /\ panic = NoPanic
    /\ data.entity + data.lazy.entity < MaxEntity
    /\ data' = [ data EXCEPT !.lazy = lazy_add_entity(data.lazy).lazy ]
    /\ op' = Call("call")
    /\ UNCHANGED << effects, panic, marked >>

CallLazyInsert ==
    /\ UNCHANGED gvars
    /\ panic = NoPanic
    /\ \E e \in 0..(data.lazy.entity - 1),
          c \in DriverColumns \cap LazyColumns, t \in Values :
          /\ data' = [ data EXCEPT !.lazy = lazy_insert(data.lazy, c, e, t).lazy ]
          /\ panic' = lazy_insert(data.lazy, c, e, t).panic
          /\ op' = Call("call")
    /\ UNCHANGED marked

\* data.delete(e); data.lazy.remove(e): the two calls every call site makes
\* together, on an entity that is not yet marked (the collision pass marks
\* only entities that pass has(), the aging loop only listed creatures).
CallMarkDeleted ==
    /\ UNCHANGED gvars
    /\ panic = NoPanic
    /\ \E e \in Entities(data) \ data.delete :
          /\ data' = [ delete(data, e) EXCEPT !.lazy = lazy_remove(data.lazy, e) ]
          /\ marked' = marked \cup {e}
          /\ op' = Call("call")
    /\ UNCHANGED panic

CallCommit ==
    /\ UNCHANGED gvars
    /\ panic = NoPanic
    /\ data' = commit(data).data
    /\ panic' = commit(data).panic
    /\ op' = [ Call("commit") EXCEPT
                  !.created = commit(data).created,
                  !.removed = commit(data).removed ]
    /\ marked' = {}

\* A read data[e.component::<T>()].
CallIndex ==
    /\ UNCHANGED gvars
    /\ panic = NoPanic
    /\ \E e \in Entities(data), c \in DriverColumns :
          /\ panic' = index_panic(data, c, e)
          /\ op' = Call("index")
    /\ UNCHANGED << effects, data, marked >>

\* A write data[e.component::<T>()] = t.
CallIndexMut ==
    /\ UNCHANGED gvars
    /\ panic = NoPanic
    /\ \E e \in Entities(data), c \in DriverColumns, t \in Values :
          /\ panic' = index_panic(data, c, e)
          /\ data' = IF index_panic(data, c, e) = NoPanic
                     THEN [ data EXCEPT ![c][e + 1] = Some(t) ]
                     ELSE data
          /\ op' = Call("index")
    /\ UNCHANGED marked

StoreNext ==
    \/ CallAddEntity
    \/ CallInsert
    \/ CallLazyAddEntity
    \/ CallLazyInsert
    \/ CallMarkDeleted
    \/ CallCommit
    \/ CallIndex
    \/ CallIndexMut

StoreSpec == StoreInit /\ [][StoreNext]_vars


\* ------------------------------------------------- claims about the store

\* A sequence without repeated elements.
NoDuplicates(s) == \A i, j \in 1..Len(s) : s[i] = s[j] => i = j

\* The step is a commit that returned.
CommitReturned == op'.name = "commit" /\ panic' = NoPanic

\* Every slot entity e has is None.
SlotsEmpty(d, e) == \A c \in Columns : e < Len(d[c]) => d[c][e + 1] = None

\* C1: once an entity is marked for deletion (delete paired with
\* lazy.remove), has() is false for it in every component array at once,
\* before any commit; after the next commit every slot of it is None.
C1_DeletionVisibility ==
    [][ /\ \A e \in marked', c \in Columns :
              e < Len(data'[c]) => ~has(data', c, e)
        /\ CommitReturned =>
              \A e \in marked, c \in Columns :
                 e < Len(data'[c]) /\ data'[c][e + 1] = None ]_vars

\* C1 witness: an entity is marked, not yet committed, and still holds a
\* component, which has() no longer reports.
C1_Witness ==
    \E e \in marked :
       /\ data.creatures[e + 1] # None
       /\ ~has(data, "creatures", e)

\* C2: commit returns in `removed` every entity marked since the previous
\* commit, each exactly once; on return every slot of each is None, and no
\* slot of an entity that was not marked is cleared.
C2_CommitRemoves ==
    [][ CommitReturned =>
          /\ Range(op'.removed) = marked
          /\ NoDuplicates(op'.removed)
          /\ \A e \in Range(op'.removed) : SlotsEmpty(data', e)
          /\ \A c \in Columns, e \in Entities(data) \ marked :
                e < Len(data[c]) => data'[c][e + 1] = data[c][e + 1] ]_vars

\* C2 witness: a commit returned two removed entities and left a third,
\* unmarked one with its component.
C2_Witness ==
    /\ op.name = "commit"
    /\ panic = NoPanic
    /\ Len(op.removed) >= 2
    /\ \E e \in Entities(data) : data.creatures[e + 1] # None

\* C3: for k entities queued in the buffer, commit returns in `created` the
\* indices n .. n+k-1 (n the counter before the commit); the entity with
\* buffer handle j is at live index n+j with exactly the slots the buffer
\* held for it (and no Desired, which the buffer cannot hold); the slots of
\* the entities already live are not changed by the append.
C3_CommitCreates ==
    [][ CommitReturned =>
          LET n == data.entity
              k == data.lazy.entity
          IN /\ op'.created = [ i \in 1..k |-> n + i - 1 ]
             /\ data'.entity = n + k
             /\ \A c \in LazyColumns, j \in 0..(k - 1) :
                   data'[c][n + j + 1] = data.lazy[c][j + 1]
             /\ \A j \in 0..(k - 1) : n + j >= Len(data'.desired)
             /\ \A c \in Columns, e \in Entities(data) \ marked :
                   e < Len(data[c]) => data'[c][e + 1] = data[c][e + 1] ]_vars

\* C3 witness: a commit created two entities behind an entity already
\* live, the first without and the second with a Creature.
C3_Witness ==
    /\ op.name = "commit"
    /\ panic = NoPanic
    /\ Len(op.created) = 2
    /\ op.created[1] > 0
    /\ data.creatures[op.created[1] + 1] = None
    /\ data.creatures[op.created[2] + 1] # None

\* Nothing is queued: no buffered creation and no removal.
NothingQueued(d) == d.lazy.entity = 0 /\ d.lazy.remove = << >>

\* C4: a commit with nothing queued returns (empty, empty) and leaves the
\* whole store unchanged; nothing is queued right after a commit, so the
\* second of two consecutive commits is a no-op.
C4_CommitIdempotent ==
    [][ /\ (op'.name = "commit" /\ (NothingQueued(data) \/ op.name = "commit")) =>
              /\ panic' = NoPanic
              /\ op'.created = << >>
              /\ op'.removed = << >>
              /\ data' = data
        /\ CommitReturned => NothingQueued(data') ]_vars

\* C4 witness: a commit returned (empty, empty) on a store that holds
\* entities, one of them removed by an earlier commit.
C4_Witness ==
    /\ op.name = "commit"
    /\ panic = NoPanic
    /\ op.created = << >>
    /\ op.removed = << >>
    /\ data.entity >= 2
    /\ data.delete # {}

\* C5 as stated: after commit returns no creation is pending, the removal
\* queue is empty and the pending-deletion set is empty.  commit never
\* clears GameData::delete, so this fails.
C5_BuffersCleared ==
    (op.name = "commit" /\ panic = NoPanic) =>
        /\ data.lazy.entity = 0
        /\ \A c \in LazyColumns : data.lazy[c] = << >>
        /\ data.lazy.remove = << >>
        /\ data.delete = {}

\* C6 as stated: every live component array has as many slots as the
\* entity counter.  The buffer has no `desired` array, so `desired` falls
\* behind by every entity created through the buffer.
C6_ArraysMatchCounter ==
    \A c \in Columns : Len(data[c]) = data.entity

\* C8: indexing a component whose slot is None panics with "entity doesn't
\* have component": no index, read or write, fills an empty slot, and the
\* panic leaves the store as it was.
C8_IndexFailsFast ==
    [][ /\ \A c \in Columns, e \in Entities(data) :
              (e < Len(data[c]) /\ data[c][e + 1] = None) =>
                 index_panic(data, c, e) = MissingComponent
        /\ op'.name = "index" =>
              \A c \in Columns, e \in Entities(data) :
                 (e < Len(data[c]) /\ data[c][e + 1] = None) =>
                    data'[c][e + 1] = None
        /\ panic' = MissingComponent =>
              /\ data' = data
              /\ panic = MissingComponent \/ op'.name = "index"
      ]_vars

\* C8 witness: an index of an empty slot ended the run with the panic.
C8_Witness ==
    /\ panic = MissingComponent
    /\ op.name = "index"

\* ----------------------------------------------------------- f32 arithmetic

\* x is the square of a whole number.
IsSquare(x) == \E s \in 0..x : s * s = x

\* f32::sqrt, on the squares.
sqrt(x) == CHOOSE s \in 0..x : s * s = x

abs(x) == IF x < 0 THEN -x ELSE x

RECURSIVE gcd(_, _)
gcd(x, y) == IF y = 0 THEN x ELSE gcd(y, x % y)

\* An f32 as the fraction num / den in lowest terms, den >= 0: 1/0 is
\* +infinity, -1/0 is -infinity and 0/0 is NaN.  Rounding and the sign of
\* zero are left out.
sign(x) == IF x > 0 THEN 1 ELSE IF x < 0 THEN -1 ELSE 0

f32(n, d) ==
    IF d = 0 THEN [ num |-> sign(n), den |-> 0 ]
    ELSE LET g == gcd(abs(n), abs(d))
         IN  [ num |-> sign(d) * (n \div g), den |-> abs(d) \div g ]

Zero == f32(0, 1)
One == f32(1, 1)
NaN == f32(0, 0)

is_nan(x) == x = NaN
is_finite(x) == x.den # 0

\* f32 * f32 and f32 / f32: infinity * 0, 0 / 0 and infinity / infinity are
\* NaN, x / 0 is an infinity for x # 0.
mul(x, y) == f32(x.num * y.num, x.den * y.den)
quot(x, y) == f32(x.num * y.den, x.den * y.num)

\* f32 + f32: infinity + infinity is that infinity, infinity - infinity NaN.
add(x, y) ==
    IF x.den = 0 /\ y.den = 0
    THEN ( IF x = y THEN x ELSE NaN )
    ELSE f32(x.num * y.den + y.num * x.den, x.den * y.den)

neg(x) == [ x EXCEPT !.num = -@ ]
minus(x, y) == add(x, neg(y))

\* x > y; a comparison with NaN is false.
gt(x, y) == ~is_nan(x) /\ ~is_nan(y) /\ x.num * y.den > y.num * x.den

\* x >= y and x < y.
ge(x, y) == ~is_nan(x) /\ ~is_nan(y) /\ x.num * y.den >= y.num * x.den
lt(x, y) == gt(y, x)

Infinity == f32(1, 0)

\* f32::sqrt of a square of a fraction; NaN for NaN and for x < 0.
fsqrt(x) ==
    IF is_nan(x) \/ x.num < 0 THEN NaN
    ELSE IF x.den = 0 THEN Infinity
    ELSE f32(sqrt(x.num), sqrt(x.den))

\* f32::min and f32::max: the other operand when one is NaN.
min(x, y) == IF is_nan(x) THEN y ELSE IF is_nan(y) THEN x
             ELSE IF gt(x, y) THEN y ELSE x
max(x, y) == IF is_nan(x) THEN y ELSE IF is_nan(y) THEN x
             ELSE IF gt(y, x) THEN y ELSE x

\* f32::recip.
recip(x) == quot(One, x)

\* f32::round, half away from zero, of a finite x, as a whole number.
round(x) ==
    IF x.num >= 0 THEN (2 * x.num + x.den) \div (2 * x.den)
    ELSE -((2 * (-x.num) + x.den) \div (2 * x.den))

\* The values of random::<f32>(), which is in [0, 1): the multiples of
\* 1 / RandomSteps.
RandomSteps == 4
Draws == { f32(k, RandomSteps) : k \in 0..(RandomSteps - 1) }

\* ------------------------------------------------------------ game: seeding

\* Mutant of Creature_new: a creature starts ready to mate.
Creature_new_ready(kind) ==
    [ kind |-> kind, hunger |-> 0, timeout |-> -1, life |-> 0 ]

\* Creature::new(kind)
Creature_new(kind) ==
    [ kind |-> kind, hunger |-> 0,
      timeout |-> IF kind = "Vegan" THEN VEGAN_TIMEOUT ELSE CARNIVORE_TIMEOUT,
      life |-> 0 ]

\* Mutant of FoodComponents: a food is given no Velocity.
FoodComponents_without_velocity ==
    << << "foods", "Food" >>, << "positions", "Position" >>,
       << "bodies", "Body" >>, << "draw", "Draw" >> >>

\* The components a food entity is given, in the order of the insert calls.
\* Only Creature values play a part in the control flow; the other
\* components are tokens.
FoodComponents ==
    << << "foods", "Food" >>, << "positions", "Position" >>,
       << "velocities", "Velocity" >>, << "bodies", "Body" >>,
       << "draw", "Draw" >> >>

\* The components a seeded creature is given, in the order of the insert calls.
CreatureComponents(kind) ==
    << << "creatures", Creature_new(kind) >>, << "positions", "Position" >>,
       << "velocities", "Velocity" >>, << "directions", "Direction" >>,
       << "bodies", "Body" >>, << "draw", "Draw" >>, << "nns", "Network" >>,
       << "inputs", "Inputs" >>, << "outputs", "Outputs" >>,
       << "desired", "Desired" >> >>

\* data.insert(e, ..) for each component of comps in turn.
RECURSIVE insert_all(_, _, _)
insert_all(d, e, comps) ==
    IF comps = << >> THEN [ data |-> d, panic |-> NoPanic ]
    ELSE LET r == insert(d, comps[1][1], e, comps[1][2])
         IN  IF r.panic # NoPanic THEN r
             ELSE insert_all(r.data, e, Tail(comps))

\* for _ in 0..FOOD_COUNT: add_entity, the five inserts, foods.push(e).
\* st is [data, list]; n is the number of iterations left.
RECURSIVE spawn_food(_, _)
spawn_food(st, n) ==
    IF n = 0 THEN st
    ELSE LET r == add_entity(st.data)
         IN  spawn_food([ data |-> insert_all(r.data, r.e, FoodComponents).data,
                          list |-> Append(st.list, r.e) ], n - 1)

\* for _ in 0..new_count: the first `carnivores` creatures are carnivorous,
\* the others vegan.
RECURSIVE spawn_creatures(_, _, _)
spawn_creatures(st, n, carnivores) ==
    IF n = 0 THEN st
    ELSE LET r == add_entity(st.data)
             kind == IF carnivores = 0 THEN "Vegan" ELSE "Carnivorous"
             left == IF carnivores = 0 THEN 0 ELSE carnivores - 1
         IN  spawn_creatures(
                 [ data |-> insert_all(r.data, r.e, CreatureComponents(kind)).data,
                   list |-> Append(st.list, r.e) ], n - 1, left)

\* GameState::new(ctx, generation), started without a saved top list.
GameState_new(g) ==
    LET f == spawn_food([ data |-> GameDataNew, list |-> << >> ], FOOD_COUNT)
        c == spawn_creatures([ data |-> f.data, list |-> << >> ],
                             CREATURE_COUNT, CARNIVORES)
    IN  [ generation |-> g, time |-> 0, data |-> c.data, foods |-> f.list,
          creatures |-> c.list, food_timeout |-> 0 ]

Init ==
    LET s == GameState_new(0)
    IN  /\ data = s.data
        /\ generation = s.generation
        /\ time = s.time
        /\ food_timeout = s.food_timeout
        /\ foods = s.foods
        /\ creatures = s.creatures
        /\ panic = NoPanic
        /\ op = Call("new")
        /\ marked = {}
        /\ pc = "idle"
        /\ ia = 0
        /\ ib = 0
        /\ fresh = s.foods \o s.creatures
        /\ handed = { << s.generation, e >> : e \in Range(s.foods \o s.creatures) }
        /\ touched = {}
        /\ contact = "skipped"
        /\ stale = FALSE
        /\ phases = << >>
        /\ effects = << >>

\* ------------------------------------------------------- game: index passes

\* The reads and writes data[e.component::<T>()] a pass makes are a sequence
\* of << array, entity >> pairs.  The position of the first that panics,
\* 0 if none does.
first_bad(d, acc) ==
    LET bad == { i \in 1..Len(acc) :
                    index_panic(d, acc[i][1], acc[i][2]) # NoPanic }
    IN  IF bad = {} THEN 0 ELSE CHOOSE i \in bad : \A j \in bad : i <= j

\* The accesses made: all up to and including the first that panics.
performed(d, acc) ==
    LET i == first_bad(d, acc)
    IN  IF i = 0 THEN acc ELSE SubSeq(acc, 1, i)

\* The panic a sequence of accesses ends with, if any.
first_panic(d, acc) ==
    LET i == first_bad(d, acc)
    IN  IF i = 0 THEN NoPanic ELSE index_panic(d, acc[i][1], acc[i][2])

\* Some access made touches an entity of the deletion set (pending or
\* already cleared by commit).
touches_deleted(d, acc) ==
    LET done == performed(d, acc)
    IN  d.delete # {} /\ \E i \in 1..Len(done) : done[i][2] \in d.delete

\* The entities the accesses made are to.
entities_of(d, acc) ==
    LET done == performed(d, acc)
    IN  { done[i][2] : i \in 1..Len(done) }

\* Vec::remove at the position of the first element equal to r, if any.
remove_first(list, r) ==
    IF r \notin Range(list) THEN list
    ELSE LET pos == CHOOSE i \in 1..Len(list) :
                        list[i] = r /\ \A j \in 1..(i - 1) : list[j] # r
         IN  SubSeq(list, 1, pos - 1) \o SubSeq(list, pos + 1, Len(list))

\* ------------------------------------------------------------- game: update

\* The phases of a tick in program order, as update calls them.
update_phases ==
    << "aging", "commit", "physics", "commit", "sensing", "inference", "output" >>

\* The statement update goes on with after the one at p, were the output
\* pass left out.
next_pc_without_output(p) ==
    CASE p = "idle" -> "commit1"
      [] p = "commit1" -> "physics"
      [] p = "physics" -> "commit2"
      [] p = "commit2" -> "sensing"
      [] p = "sensing" -> "inference"
      [] p = "inference" -> "idle"
      [] p = "output" -> "idle"

\* The statement update goes on with after the one at p: the aging loop
\* ("idle", the tick's start), the first commit, the physics pass, the
\* second commit, the three network passes, then the return.
next_pc(p) ==
    CASE p = "idle" -> "commit1"
      [] p = "commit1" -> "physics"
      [] p = "physics" -> "commit2"
      [] p = "commit2" -> "sensing"
      [] p = "sensing" -> "inference"
      [] p = "inference" -> "output"
      [] p = "output" -> "idle"

\* if self.time > GEN_TIME { *self = GameState::new(ctx, generation + 1) }
GenerationReset ==
    /\ pc = "idle"
    /\ panic = NoPanic
    /\ generation < MaxGeneration
    /\ \E delta \in 1..MaxDelta :
          /\ time + delta > GEN_TIME
          /\ LET s == GameState_new(generation + 1)
             IN  /\ data' = s.data
                 /\ generation' = s.generation
                 /\ time' = s.time
                 /\ food_timeout' = s.food_timeout
                 /\ foods' = s.foods
                 /\ creatures' = s.creatures
                 /\ fresh' = s.foods \o s.creatures
                 /\ handed' = handed \cup
                       { << s.generation, e >> : e \in Range(s.foods \o s.creatures) }
    /\ op' = Call("new")
    /\ marked' = {}
    /\ phases' = << >>
    /\ touched' = {}
    /\ effects' = << >>
    /\ UNCHANGED << panic, pc, ia, ib, stale, contact >>

\* The aging loop over self.creatures; st is [data, panic, stale, marked,
\* touched].
RECURSIVE aging_loop(_, _, _)
aging_loop(st, list, delta) ==
    IF list = << >> \/ st.panic # NoPanic THEN st
    ELSE
      LET e == Head(list)
          d == st.data
          p == index_panic(d, "creatures", e)
          is_stale == st.stale \/ e \in d.delete
      IN  IF p # NoPanic
          THEN [ st EXCEPT !.panic = p, !.stale = is_stale,
                           !.touched = @ \cup {e} ]
          ELSE
            LET c  == d.creatures[e + 1][1]
                c1 == [ c EXCEPT !.timeout = @ - delta, !.life = @ + delta,
                                 !.hunger = @ + delta ]
                starve == IF c1.kind = "Carnivorous" THEN CARNIVORE_STARVE
                          ELSE VEGAN_STARVE
                d1 == [ d EXCEPT !.creatures[e + 1] = Some(c1) ]
                starved == c1.hunger > starve
                d2 == IF starved
                      THEN [ delete(d1, e) EXCEPT !.lazy = lazy_remove(d1.lazy, e) ]
                      ELSE d1
            IN  aging_loop([ data |-> d2, panic |-> NoPanic, stale |-> is_stale,
                             marked |-> IF starved THEN st.marked \cup {e}
                                        ELSE st.marked,
                             touched |-> st.touched \cup {e} ],
                           Tail(list), delta)

\* update up to the first commit: the clock, the food timer and its batch
\* of food, then the aging loop.
Aging ==
    /\ pc = "idle"
    /\ panic = NoPanic
    /\ \E delta \in 1..MaxDelta :
          /\ time + delta <= GEN_TIME
          /\ time' = time + delta
          /\ LET due == food_timeout + delta > FOOD_TIMEOUT
                 f == IF due
                      THEN spawn_food([ data |-> data, list |-> foods ], FOOD_COUNT)
                      ELSE [ data |-> data, list |-> foods ]
                 r == aging_loop([ data |-> f.data, panic |-> NoPanic,
                                   stale |-> stale, marked |-> marked,
                                   touched |-> {} ],
                                 creatures, delta)
             IN  /\ food_timeout' = IF due THEN food_timeout + delta - FOOD_TIMEOUT
                                    ELSE food_timeout + delta
                 /\ foods' = f.list
                 /\ fresh' = SubSeq(f.list, Len(foods) + 1, Len(f.list))
                 /\ handed' = handed \cup
                       { << generation, f.list[i] >> : i \in (Len(foods) + 1)..Len(f.list) }
                 /\ data' = r.data
                 /\ panic' = r.panic
                 /\ stale' = r.stale
                 /\ marked' = r.marked
                 /\ touched' = r.touched
    /\ op' = Call("call")
    /\ phases' = IF panic' = NoPanic THEN << "aging" >> ELSE << >>
    /\ effects' = << >>
    /\ pc' = IF panic' = NoPanic THEN next_pc(pc) ELSE pc
    /\ UNCHANGED << generation, creatures, ia, ib, contact >>

\* Mutant of drop_creatures: the entities removed stay in the list.
drop_creatures_keeping(list, removed) == list

\* The removal from self.creatures of the entities the first commit returned.
RECURSIVE drop_creatures(_, _)
drop_creatures(list, removed) ==
    IF removed = << >> THEN list
    ELSE drop_creatures(remove_first(list, Head(removed)), Tail(removed))

\* let (_, remove) = self.data.commit() and the list maintenance.
Commit1 ==
    /\ pc = "commit1"
    /\ panic = NoPanic
    /\ LET r == commit(data)
       IN  /\ data' = r.data
           /\ panic' = r.panic
           /\ op' = [ Call("commit") EXCEPT !.created = r.created,
                                            !.removed = r.removed ]
           /\ creatures' = IF r.panic = NoPanic
                           THEN drop_creatures(creatures, r.removed)
                           ELSE creatures
           /\ fresh' = IF r.panic = NoPanic THEN r.created ELSE << >>
           /\ handed' = IF r.panic = NoPanic
                         THEN handed \cup { << generation, e >> : e \in Range(r.created) }
                         ELSE handed
    /\ marked' = {}
    /\ phases' = IF panic' = NoPanic THEN Append(phases, "commit") ELSE phases
    /\ pc' = IF panic' = NoPanic THEN next_pc(pc) ELSE pc
    /\ ia' = 1
    /\ ib' = 1
    /\ touched' = {}
    /\ UNCHANGED << effects, generation, time, food_timeout, foods, stale, contact >>

\* --------------------------------------------------- game: the physics pass

\* gen_manifold reads both bodies and both positions.
gen_manifold_indexes(a, b) ==
    << << "bodies", a >>, << "bodies", b >>,
       << "positions", b >>, << "positions", a >> >>

\* resolve reads both velocities and, unless the pair is separating
\* (veln > 0, the early return), both bodies, then writes both velocities.
resolve_indexes(a, b, separating) ==
    << << "velocities", b >>, << "velocities", a >> >> \o
    ( IF separating THEN << >>
      ELSE << << "bodies", a >>, << "bodies", b >>,
              << "velocities", a >>, << "velocities", b >> >> )

\* correct reads both bodies and writes both positions.
correct_indexes(a, b) ==
    << << "bodies", a >>, << "bodies", b >>,
       << "positions", a >>, << "positions", b >> >>

\* Mutant of children_of: min_children is left out.
children_of_from_zero(kind, random) ==
    LET max_children == IF kind = "Vegan" THEN VEGAN_CHILDREN
                        ELSE CARNIVORE_CHILDREN
    IN  round(mul(random, minus(f32(max_children, 1), One)))

\* Mutant of children_of: the number is truncated, not rounded.
children_of_truncated(kind, random) ==
    LET min_children == One
        max_children == IF kind = "Vegan" THEN f32(VEGAN_CHILDREN, 1)
                        ELSE f32(CARNIVORE_CHILDREN, 1)
        children == add(min_children,
                        mul(random, minus(max_children, min_children)))
    IN  children.num \div children.den

\* children = min_children + random * (max_children - min_children), then
\* children.round() as usize.
children_of(kind, random) ==
    LET min_children == One
        max_children == IF kind = "Vegan" THEN f32(VEGAN_CHILDREN, 1)
                        ELSE f32(CARNIVORE_CHILDREN, 1)
        children == add(min_children,
                        mul(random, minus(max_children, min_children)))
    IN  round(children)

\* What mate reads of the parents: the kind and both timeouts, then for each
\* child both positions, both bodies (three times), both draws, the kind.
RECURSIVE mate_child_indexes(_, _, _)
mate_child_indexes(a, b, children) ==
    IF children = 0 THEN << >>
    ELSE << << "positions", a >>, << "positions", b >>,
            << "bodies", a >>, << "bodies", b >>,
            << "draw", a >>, << "draw", b >>, << "creatures", a >> >>
         \o mate_child_indexes(a, b, children - 1)

\* The components mate gives a child through data.lazy.insert: those the
\* buffer has an array for.
LazyComponents(kind) ==
    SelectSeq(CreatureComponents(kind), LAMBDA x : x[1] \in LazyColumns)

\* data.lazy.insert(e, ..) for each component of comps in turn.
RECURSIVE lazy_insert_all(_, _, _)
lazy_insert_all(lz, e, comps) ==
    IF comps = << >> THEN lz
    ELSE lazy_insert_all(lazy_insert(lz, comps[1][1], e, comps[1][2]).lazy,
                         e, Tail(comps))

\* One round of mate's loop for each child: lazy.add_entity and the inserts.
RECURSIVE add_children(_, _, _)
add_children(lz, kind, children) ==
    IF children = 0 THEN lz
    ELSE LET r == lazy_add_entity(lz)
         IN  add_children(lazy_insert_all(r.lazy, r.e, LazyComponents(kind)),
                          kind, children - 1)

\* Mutant of mate: the timeouts of the parents are left as they are.
mate_keeping_timeout(d, a, b, random) ==
    LET head == << << "creatures", a >>, << "creatures", a >>,
                   << "creatures", b >>, << "creatures", a >> >>
    IN  IF first_panic(d, head) # NoPanic
        THEN [ data |-> d, panic |-> first_panic(d, head), touched |-> head ]
        ELSE
          LET kind == d.creatures[a + 1][1].kind
              timeout == IF kind = "Vegan" THEN VEGAN_TIMEOUT
                         ELSE CARNIVORE_TIMEOUT
              d2 == d
              children == children_of(kind, random)
              acc == mate_child_indexes(a, b, children)
          IN  [ data |-> IF first_panic(d2, acc) # NoPanic THEN d2
                         ELSE [ d2 EXCEPT !.lazy = add_children(@, kind, children) ],
                panic |-> first_panic(d2, acc),
                touched |-> head \o acc ]

\* mate(ctx, data, a, b): [data, panic, touched], touched being the accesses.
mate(d, a, b, random) ==
    LET head == << << "creatures", a >>, << "creatures", a >>,
                   << "creatures", b >>, << "creatures", a >> >>
    IN  IF first_panic(d, head) # NoPanic
        THEN [ data |-> d, panic |-> first_panic(d, head), touched |-> head ]
        ELSE
          LET kind == d.creatures[a + 1][1].kind
              timeout == IF kind = "Vegan" THEN VEGAN_TIMEOUT
                         ELSE CARNIVORE_TIMEOUT
              d1 == [ d EXCEPT !.creatures[a + 1][1].timeout = timeout ]
              d2 == [ d1 EXCEPT !.creatures[b + 1][1].timeout = timeout ]
              children == children_of(kind, random)
              acc == mate_child_indexes(a, b, children)
          IN  [ data |-> IF first_panic(d2, acc) # NoPanic THEN d2
                         ELSE [ d2 EXCEPT !.lazy = add_children(@, kind, children) ],
                panic |-> first_panic(d2, acc),
                touched |-> head \o acc ]

\* Mutant of eat: the eaten entity is marked, the eater's hunger is kept.
eat_keeping_hunger(d, eater, eaten) ==
    [ data |-> [ delete(d, eaten) EXCEPT !.lazy = lazy_remove(d.lazy, eaten) ],
      panic |-> NoPanic, touched |-> << << "creatures", eater >> >>,
      marked |-> {eaten} ]

\* Mutant of eat: the eaten entity is queued for removal but not added to
\* the deletion set.
eat_without_delete(d, eater, eaten) ==
    [ data |-> [ d EXCEPT !.creatures[eater + 1][1].hunger = @ - FOOD,
                          !.lazy = lazy_remove(d.lazy, eaten) ],
      panic |-> NoPanic, touched |-> << << "creatures", eater >> >>,
      marked |-> {eaten} ]

\* Mutant of eat: the store is committed as soon as the entity is queued.
eat_committing(d, eater, eaten) ==
    LET acc == << << "creatures", eater >> >>
    IN  IF first_panic(d, acc) # NoPanic
        THEN [ data |-> d, panic |-> first_panic(d, acc), touched |-> acc,
               marked |-> {} ]
        ELSE
          LET d1 == [ d EXCEPT !.creatures[eater + 1][1].hunger = @ - FOOD ]
          IN  [ data |-> commit([ delete(d1, eaten) EXCEPT
                              !.lazy = lazy_remove(d1.lazy, eaten) ]).data,
                panic |-> NoPanic, touched |-> acc, marked |-> {eaten} ]

\* data[eater].hunger -= FOOD; data.delete(eaten); data.lazy.remove(eaten)
eat(d, eater, eaten) ==
    LET acc == << << "creatures", eater >> >>
    IN  IF first_panic(d, acc) # NoPanic
        THEN [ data |-> d, panic |-> first_panic(d, acc), touched |-> acc,
               marked |-> {} ]
        ELSE
          LET d1 == [ d EXCEPT !.creatures[eater + 1][1].hunger = @ - FOOD ]
          IN  [ data |-> [ delete(d1, eaten) EXCEPT
                              !.lazy = lazy_remove(d1.lazy, eaten) ],
                panic |-> NoPanic, touched |-> acc, marked |-> {eaten} ]

\* Mutant of collide: a timeout of exactly 0 is eligible for mating.
collide_mating_at_zero(d, a, b, random) ==
    LET nothing == [ data |-> d, panic |-> NoPanic, touched |-> << >>,
                     marked |-> {} ]
        both == << << "creatures", a >>, << "creatures", b >> >>
    IN  IF has(d, "creatures", a) /\ has(d, "creatures", b)
        THEN
          IF first_panic(d, both) # NoPanic
          THEN [ nothing EXCEPT !.panic = first_panic(d, both), !.touched = both ]
          ELSE
            LET c1 == d.creatures[a + 1][1]
                c2 == d.creatures[b + 1][1]
            IN  IF c1.kind = "Vegan" /\ c2.kind = "Carnivorous"
                THEN [ eat(d, b, a) EXCEPT !.touched = both \o @ ]
                ELSE IF c1.kind = "Carnivorous" /\ c2.kind = "Vegan"
                THEN [ eat(d, a, b) EXCEPT !.touched = both \o @ ]
                ELSE IF c1.timeout > 0 \/ c2.timeout > 0
                THEN [ nothing EXCEPT !.touched = both ]
                ELSE LET m == mate(d, a, b, random)
                     IN  [ data |-> m.data, panic |-> m.panic,
                           touched |-> both \o m.touched, marked |-> {} ]
        ELSE IF has(d, "creatures", a) /\ has(d, "foods", b)
        THEN eat(d, a, b)
        ELSE IF has(d, "foods", a) /\ has(d, "creatures", b)
        THEN eat(d, b, a)
        ELSE nothing

\* What physics_system does with a manifold once resolved and corrected:
\* predation, mating or feeding.
collide(d, a, b, random) ==
    LET nothing == [ data |-> d, panic |-> NoPanic, touched |-> << >>,
                     marked |-> {} ]
        both == << << "creatures", a >>, << "creatures", b >> >>
    IN  IF has(d, "creatures", a) /\ has(d, "creatures", b)
        THEN
          IF first_panic(d, both) # NoPanic
          THEN [ nothing EXCEPT !.panic = first_panic(d, both), !.touched = both ]
          ELSE
            LET c1 == d.creatures[a + 1][1]
                c2 == d.creatures[b + 1][1]
            IN  IF c1.kind = "Vegan" /\ c2.kind = "Carnivorous"
                THEN [ eat(d, b, a) EXCEPT !.touched = both \o @ ]
                ELSE IF c1.kind = "Carnivorous" /\ c2.kind = "Vegan"
                THEN [ eat(d, a, b) EXCEPT !.touched = both \o @ ]
                ELSE IF c1.timeout >= 0 \/ c2.timeout >= 0
                THEN [ nothing EXCEPT !.touched = both ]
                ELSE LET m == mate(d, a, b, random)
                     IN  [ data |-> m.data, panic |-> m.panic,
                           touched |-> both \o m.touched, marked |-> {} ]
        ELSE IF has(d, "creatures", a) /\ has(d, "foods", b)
        THEN eat(d, a, b)
        ELSE IF has(d, "foods", a) /\ has(d, "creatures", b)
        THEN eat(d, b, a)
        ELSE nothing

\* An access of the sequence is to an entity of d's deletion set.
any_deleted(d, acc) == \E i \in 1..Len(acc) : acc[i][2] \in d.delete

\* One round of the inner loop of physics_system, for the pair (a, b):
\* [data, panic, stale, marked, touched, contact].  contact is "skipped"
\* when the round ends at one of the first two tests, "none" when
\* gen_manifold returns None, else "separating" or "closing" by veln.
physics_pair(d, a, b, overlap, separating, random) ==
    LET skip == [ data |-> d, panic |-> NoPanic, stale |-> FALSE, marked |-> {},
                  touched |-> {}, contact |-> "skipped" ]
        acc == gen_manifold_indexes(a, b) \o
               ( IF overlap
                 THEN resolve_indexes(a, b, separating) \o correct_indexes(a, b)
                 ELSE << >> )
        found == IF ~overlap THEN "none"
                 ELSE IF separating THEN "separating" ELSE "closing"
    IN  IF a = b THEN skip
        ELSE IF ~has(d, "bodies", a) \/ ~has(d, "bodies", b) THEN skip
        ELSE IF first_panic(d, acc) # NoPanic \/ ~overlap
        THEN [ skip EXCEPT !.panic = first_panic(d, acc),
                           !.stale = touches_deleted(d, acc),
                           !.touched = entities_of(d, acc),
                           !.contact = found ]
        ELSE LET r == collide(d, a, b, random)
             IN  [ data |-> r.data, panic |-> r.panic,
                   stale |-> touches_deleted(d, acc) \/ any_deleted(d, r.touched),
                   marked |-> r.marked,
                   touched |-> entities_of(d, acc) \cup
                               { r.touched[i][2] : i \in 1..Len(r.touched) },
                   contact |-> found ]

\* What the positions, the velocities and the random draw decide for a pair:
\* gen_manifold returns None, or a manifold, and then the pair is separating
\* (veln > 0) or not and mate may draw its number of children.
PairOutcomes ==
    { [ overlap |-> FALSE, separating |-> FALSE, random |-> Zero ] } \cup
    { [ overlap |-> TRUE, separating |-> s, random |-> r ] :
        s \in BOOLEAN, r \in Draws }

\* What a round of the pair loop for (a, b) has done, seen from the store
\* before and after it: the creature of the pair whose hunger was reduced
\* and the entity it ate, and the pair that mated and queued children.
effects_of(d, after, a, b) ==
    LET fed(x) == /\ x < Len(d.creatures) /\ d.creatures[x + 1] # None
                  /\ after.creatures[x + 1] # None
                  /\ after.creatures[x + 1][1].hunger < d.creatures[x + 1][1].hunger
    IN  ( IF fed(a) THEN << << "eat", a, b >> >> ELSE << >> ) \o
        ( IF fed(b) THEN << << "eat", b, a >> >> ELSE << >> ) \o
        ( IF after.lazy.entity > d.lazy.entity THEN << << "mate", a, b >> >>
          ELSE << >> )

PhysicsPair ==
    /\ pc = "physics"
    /\ panic = NoPanic
    /\ LET left == creatures \o foods
       IN  /\ ia <= Len(left)
           /\ \E o \in PairOutcomes :
                 \E r \in { physics_pair(data, left[ia], left[ib],
                                         o.overlap, o.separating, o.random) } :
                     /\ data' = r.data
                     /\ panic' = r.panic
                     /\ stale' = (stale \/ r.stale)
                     /\ marked' = marked \cup r.marked
                     /\ touched' = r.touched
                     /\ contact' = r.contact
                     /\ effects' = effects \o
                                      effects_of(data, data', left[ia], left[ib])
           /\ ib' = IF ib = Len(left) THEN 1 ELSE ib + 1
           /\ ia' = IF ib = Len(left) THEN ia + 1 ELSE ia
    /\ op' = Call("call")
    /\ fresh' = << >>
    /\ UNCHANGED << generation, time, food_timeout, foods, creatures, pc, phases,
                    handed >>

\* The second loop of physics_system: the entities with a velocity and a
\* position are moved.
RECURSIVE integrate_indexes(_, _)
integrate_indexes(d, list) ==
    IF list = << >> THEN << >>
    ELSE ( IF ~has(d, "velocities", Head(list)) \/ ~has(d, "positions", Head(list))
           THEN << >>
           ELSE << << "velocities", Head(list) >>, << "positions", Head(list) >> >> )
         \o integrate_indexes(d, Tail(list))

Integrate ==
    /\ pc = "physics"
    /\ panic = NoPanic
    /\ ia > Len(creatures \o foods)
    /\ LET acc == integrate_indexes(data, creatures \o foods)
       IN  /\ panic' = first_panic(data, acc)
           /\ stale' = (stale \/ touches_deleted(data, acc))
           /\ touched' = entities_of(data, acc)
    /\ op' = Call("index")
    /\ fresh' = << >>
    /\ phases' = IF panic' = NoPanic THEN Append(phases, "physics") ELSE phases
    /\ pc' = IF panic' = NoPanic THEN next_pc(pc) ELSE pc
    /\ ia' = 0
    /\ ib' = 0
    /\ UNCHANGED << effects, data, marked, generation, time, food_timeout, foods,
                    creatures, handed, contact >>

\* Mutant of drop_entities: as after the first commit, an entity removed
\* leaves self.creatures alone.
drop_entities_creatures_only(lists, removed) ==
    [ lists EXCEPT !.creatures = drop_creatures(@, removed) ]

\* The list maintenance after the second commit: an entity removed leaves
\* self.creatures, or else self.foods.  lists is [creatures, foods].
RECURSIVE drop_entities(_, _)
drop_entities(lists, removed) ==
    IF removed = << >> THEN lists
    ELSE LET r == Head(removed)
         IN  drop_entities(
                 IF r \in Range(lists.creatures)
                 THEN [ lists EXCEPT !.creatures = remove_first(@, r) ]
                 ELSE [ lists EXCEPT !.foods = remove_first(@, r) ],
                 Tail(removed))

\* let (add, remove) = self.data.commit(), the list maintenance and
\* self.creatures.extend(add).
Commit2 ==
    /\ pc = "commit2"
    /\ panic = NoPanic
    /\ LET r == commit(data)
           lists == drop_entities([ creatures |-> creatures, foods |-> foods ],
                                  r.removed)
       IN  /\ data' = r.data
           /\ panic' = r.panic
           /\ op' = [ Call("commit") EXCEPT !.created = r.created,
                                            !.removed = r.removed ]
           /\ creatures' = IF r.panic = NoPanic
                           THEN lists.creatures \o r.created ELSE creatures
           /\ foods' = IF r.panic = NoPanic THEN lists.foods ELSE foods
           /\ fresh' = IF r.panic = NoPanic THEN r.created ELSE << >>
           /\ handed' = IF r.panic = NoPanic
                         THEN handed \cup { << generation, e >> : e \in Range(r.created) }
                         ELSE handed
    /\ marked' = {}
    /\ phases' = IF panic' = NoPanic THEN Append(phases, "commit") ELSE phases
    /\ pc' = IF panic' = NoPanic THEN next_pc(pc) ELSE pc
    /\ touched' = {}
    /\ UNCHANGED << effects, generation, time, food_timeout, ia, ib, stale, contact >>

\* ------------------------------------------------- game: the network passes

\* raycast reads the position and the body of every entity but this.
RECURSIVE raycast_indexes(_, _)
raycast_indexes(all, this) ==
    IF all = << >> THEN << >>
    ELSE ( IF Head(all) = this THEN << >>
           ELSE << << "positions", Head(all) >>, << "bodies", Head(all) >> >> )
         \o raycast_indexes(Tail(all), this)

\* For an entity a ray of this hits: the kind of this is read and, unless the
\* entity hit has a Food, its kind.  hits is the set of entities some ray hits.
RECURSIVE hit_indexes(_, _, _, _)
hit_indexes(d, all, this, hits) ==
    IF all = << >> THEN << >>
    ELSE ( IF Head(all) = this \/ Head(all) \notin hits THEN << >>
           ELSE << << "creatures", this >> >> \o
                ( IF has(d, "foods", Head(all)) THEN << >>
                  ELSE << << "creatures", Head(all) >> >> ) )
         \o hit_indexes(d, Tail(all), this, hits)

\* input_system: for each creature its position and direction, the rays,
\* the kinds for the hits, then its Inputs.
RECURSIVE input_indexes(_, _, _, _)
input_indexes(d, list, all, hits) ==
    IF list = << >> THEN << >>
    ELSE << << "positions", Head(list) >>, << "directions", Head(list) >> >>
         \o raycast_indexes(all, Head(list))
         \o hit_indexes(d, all, Head(list), hits)
         \o << << "inputs", Head(list) >> >>
         \o input_indexes(d, Tail(list), all, hits)

Sensing ==
    /\ pc = "sensing"
    /\ panic = NoPanic
    /\ \E hits \in SUBSET Range(creatures \o foods) :
          LET acc == input_indexes(data, creatures, creatures \o foods, hits)
          IN  /\ panic' = first_panic(data, acc)
              /\ stale' = (stale \/ touches_deleted(data, acc))
              /\ touched' = entities_of(data, acc)
    /\ op' = Call("index")
    /\ fresh' = << >>
    /\ phases' = IF panic' = NoPanic THEN Append(phases, "sensing") ELSE phases
    /\ pc' = IF panic' = NoPanic THEN next_pc(pc) ELSE pc
    /\ UNCHANGED << effects, data, marked, generation, time, food_timeout, foods,
                    creatures, ia, ib, handed, contact >>

\* nn_system: for each creature its Inputs, Desired, Network and Outputs.
RECURSIVE nn_indexes(_)
nn_indexes(list) ==
    IF list = << >> THEN << >>
    ELSE << << "inputs", Head(list) >>, << "desired", Head(list) >>,
            << "nns", Head(list) >>, << "outputs", Head(list) >> >>
         \o nn_indexes(Tail(list))

Inference ==
    /\ pc = "inference"
    /\ panic = NoPanic
    /\ LET acc == nn_indexes(creatures)
       IN  /\ panic' = first_panic(data, acc)
           /\ stale' = (stale \/ touches_deleted(data, acc))
           /\ touched' = entities_of(data, acc)
    /\ op' = Call("index")
    /\ fresh' = << >>
    /\ phases' = IF panic' = NoPanic THEN Append(phases, "inference") ELSE phases
    /\ pc' = IF panic' = NoPanic THEN next_pc(pc) ELSE pc
    /\ UNCHANGED << effects, data, marked, generation, time, food_timeout, foods,
                    creatures, ia, ib, handed, contact >>

\* output_system: for each creature its Outputs, Velocity and Direction.
RECURSIVE output_indexes(_)
output_indexes(list) ==
    IF list = << >> THEN << >>
    ELSE << << "outputs", Head(list) >>, << "velocities", Head(list) >>,
            << "directions", Head(list) >> >>
         \o output_indexes(Tail(list))

Output ==
    /\ pc = "output"
    /\ panic = NoPanic
    /\ LET acc == output_indexes(creatures)
       IN  /\ panic' = first_panic(data, acc)
           /\ stale' = (stale \/ touches_deleted(data, acc))
           /\ touched' = entities_of(data, acc)
    /\ op' = Call("index")
    /\ fresh' = << >>
    /\ phases' = IF panic' = NoPanic THEN Append(phases, "output") ELSE phases
    /\ pc' = IF panic' = NoPanic THEN next_pc(pc) ELSE pc
    /\ UNCHANGED << effects, data, marked, generation, time, food_timeout, foods,
                    creatures, ia, ib, handed, contact >>

Next ==
    \/ GenerationReset
    \/ Aging
    \/ Commit1
    \/ PhysicsPair
    \/ Integrate
    \/ Commit2
    \/ Sensing
    \/ Inference
    \/ Output

Spec == Init /\ [][Next]_vars

\* ------------------------------------------------------ gen_manifold alone

\* Lengths are whole multiples of f32::EPSILON: a radius is 1..MaxRadius
\* and a coordinate -MaxCoord..MaxCoord of them.
EPSILON == 1
MaxRadius == 3
MaxCoord == 2

\* Position::new.
Position_new(x, y) == [ position |-> << x, y >> ]

\* Vector2 - Vector2.
sub(v, w) == << v[1] - w[1], v[2] - w[2] >>

\* Vector2::magnitude_squared.
magnitude_squared(n) == n[1] * n[1] + n[2] * n[2]

\* Body::new: a mass of 0 stands for an infinite mass and gets rmass 0.
Body_new(radius, mass, restitution) ==
    [ radius |-> radius, mass |-> mass,
      rmass |-> IF mass = Zero THEN Zero ELSE recip(mass),
      restitution |-> restitution ]

\* Vector2 / f32 for dist > 0: the quotient as a fraction in lowest terms,
\* [num, den] standing for (num[1] / den, num[2] / den).
div(n, dist) ==
    LET g == gcd(gcd(abs(n[1]), abs(n[2])), dist)
    IN  [ num |-> << n[1] \div g, n[2] \div g >>, den |-> dist \div g ]

\* Vector2::new on whole numbers.
Vector2_new(x, y) == [ num |-> << x, y >>, den |-> 1 ]

\* Mutant of gen_manifold: circles that touch do not collide.
gen_manifold_strict(d, a, b) ==
    LET a_body == d.bodies[a + 1][1]
        b_body == d.bodies[b + 1][1]
        n == sub(d.positions[b + 1][1].position, d.positions[a + 1][1].position)
        r == b_body.radius + a_body.radius
        r2 == r * r
        dist2 == magnitude_squared(n)
        dist == sqrt(dist2)
    IN  IF dist2 >= r2 THEN None
        ELSE IF dist > EPSILON
        THEN Some([ a |-> a, b |-> b, normal |-> div(n, dist),
                    penetration |-> r - dist ])
        ELSE Some([ a |-> a, b |-> b, normal |-> Vector2_new(1, 0),
                    penetration |-> a_body.radius ])

\* gen_manifold, for entities a and b that have a Body and a Position.
gen_manifold(d, a, b) ==
    LET a_body == d.bodies[a + 1][1]
        b_body == d.bodies[b + 1][1]
        n == sub(d.positions[b + 1][1].position, d.positions[a + 1][1].position)
        r == b_body.radius + a_body.radius
        r2 == r * r
        dist2 == magnitude_squared(n)
        dist == sqrt(dist2)
    IN  IF dist2 > r2 THEN None
        ELSE IF dist > EPSILON
        THEN Some([ a |-> a, b |-> b, normal |-> div(n, dist),
                    penetration |-> r - dist ])
        ELSE Some([ a |-> a, b |-> b, normal |-> Vector2_new(1, 0),
                    penetration |-> a_body.radius ])

\* A store with one entity of the given radius at the given place more.
with_body(d, radius, place) ==
    LET r == add_entity(d)
    IN  insert_all(r.data, r.e,
                   << << "bodies", Body_new(radius, One, One) >>,
                      << "positions", Position_new(place[1], place[2]) >> >>).data

Radii == 1..MaxRadius
Places == (-MaxCoord..MaxCoord) \X (-MaxCoord..MaxCoord)

\* Two entities, 0 and 1, with a body and a position each, at a distance
\* whose square root is exact.
ManifoldInit ==
    /\ \E ra \in Radii, rb \in Radii, pa \in Places, pb \in Places :
          /\ IsSquare(magnitude_squared(sub(pb, pa)))
          /\ data = with_body(with_body(GameDataNew, ra, pa), rb, pb)
    /\ panic = NoPanic
    /\ op = Call("new")
    /\ marked = {}
    /\ generation = 0
    /\ time = 0
    /\ food_timeout = 0
    /\ foods = << >>
    /\ creatures = << >>
    /\ pc = "manifold"
    /\ ia = 0
    /\ ib = 0
    /\ fresh = << >>
    /\ handed = {}
    /\ touched = {}
    /\ contact = "skipped"
    /\ stale = FALSE
    /\ phases = << >>
    /\ effects = << >>

\* let m = gen_manifold(data, a, b), for the two entities in either order.
CallGenManifold ==
    /\ pc = "manifold"
    /\ panic = NoPanic
    /\ \E a \in Entities(data), b \in Entities(data) :
          /\ a # b
          /\ panic' = first_panic(data, gen_manifold_indexes(a, b))
          /\ op' = [ Call("gen_manifold") EXCEPT
                        !.args = << a, b >>,
                        !.manifold = IF panic' = NoPanic
                                     THEN gen_manifold(data, a, b) ELSE None ]
    /\ UNCHANGED << effects, data, marked >>
    /\ UNCHANGED gvars

ManifoldNext == CallGenManifold

ManifoldSpec == ManifoldInit /\ [][ManifoldNext]_vars

\* ----------------------------------------------- resolve and correct alone

\* Masses are 0..MaxMass and the coordinates of a velocity
\* -MaxSpeed..MaxSpeed.
MaxMass == 2
MaxSpeed == 1

\* Velocity::new.
Velocity_new(x, y) == [ velocity |-> << x, y >> ]

\* Vector2 of f32: difference, sum, product with an f32, quotient by an
\* f32 and dot product.
vsub(v, w) == << minus(v[1], w[1]), minus(v[2], w[2]) >>
vadd(v, w) == << add(v[1], w[1]), add(v[2], w[2]) >>
scale(v, k) == << mul(v[1], k), mul(v[2], k) >>
vquot(v, k) == << quot(v[1], k), quot(v[2], k) >>
dot(v, w) == add(mul(v[1], w[1]), mul(v[2], w[2]))

\* The normal of a manifold as a Vector2 of f32.
normal_of(m) ==
    << f32(m.normal.num[1], m.normal.den), f32(m.normal.num[2], m.normal.den) >>

\* Mutant of resolve: the impulse is added to both velocities.
resolve_pushing_both(d, m) ==
    LET va == d.velocities[m.a + 1][1].velocity
        vb == d.velocities[m.b + 1][1].velocity
        rv == vsub(vb, va)
        veln == dot(rv, normal_of(m))
    IN  IF gt(veln, Zero) THEN d
        ELSE
          LET a == d.bodies[m.a + 1][1]
              b == d.bodies[m.b + 1][1]
              e == min(a.restitution, b.restitution)
              j == quot(mul(neg(add(One, e)), veln), add(a.rmass, b.rmass))
              impulse == scale(normal_of(m), j)
          IN  [ d EXCEPT
                  !.velocities[m.a + 1][1].velocity = vadd(va, scale(impulse, a.rmass)),
                  !.velocities[m.b + 1][1].velocity = vadd(vb, scale(impulse, b.rmass)) ]

\* resolve: the store after the call.
resolve(d, m) ==
    LET va == d.velocities[m.a + 1][1].velocity
        vb == d.velocities[m.b + 1][1].velocity
        rv == vsub(vb, va)
        veln == dot(rv, normal_of(m))
    IN  IF gt(veln, Zero) THEN d
        ELSE
          LET a == d.bodies[m.a + 1][1]
              b == d.bodies[m.b + 1][1]
              e == min(a.restitution, b.restitution)
              j == quot(mul(neg(add(One, e)), veln), add(a.rmass, b.rmass))
              impulse == scale(normal_of(m), j)
          IN  [ d EXCEPT
                  !.velocities[m.a + 1][1].velocity = vsub(va, scale(impulse, a.rmass)),
                  !.velocities[m.b + 1][1].velocity = vadd(vb, scale(impulse, b.rmass)) ]

PERCENT == f32(1, 5)
SLOP == f32(1, 50)

\* correct: the store after the call.
correct(d, m) ==
    LET a == d.bodies[m.a + 1][1]
        b == d.bodies[m.b + 1][1]
        correction ==
            scale(vquot(scale(normal_of(m), max(minus(m.penetration, SLOP), Zero)),
                        add(a.rmass, b.rmass)),
                  PERCENT)
    IN  [ d EXCEPT
            !.positions[m.a + 1][1].position = vsub(@, scale(correction, a.rmass)),
            !.positions[m.b + 1][1].position = vadd(@, scale(correction, b.rmass)) ]

\* A store with one more entity, which has the body, velocity and position
\* given.
with_moving_body(d, body, velocity, position) ==
    LET r == add_entity(d)
    IN  insert_all(r.data, r.e,
                   << << "bodies", body >>, << "velocities", velocity >>,
                      << "positions", position >> >>).data

Masses == { f32(k, 1) : k \in 0..MaxMass }
Restitutions == { Zero, f32(1, 2), One }
Speeds == { f32(k, 1) : k \in -MaxSpeed..MaxSpeed }
Normals == { Vector2_new(1, 0), div(<< 3, 4 >>, 5) }
Penetrations == { Zero, One }

\* Two entities, 0 and 1, with a body, a velocity and a position each, and
\* a manifold for them as gen_manifold makes it, its penetration an f32.
ResolveInit ==
    /\ \E ma \in Masses, mb \in Masses, ea \in Restitutions, eb \in Restitutions,
          va \in Speeds \X Speeds, vb \in Speeds \X Speeds,
          normal \in Normals, penetration \in Penetrations :
          /\ data = with_moving_body(
                        with_moving_body(GameDataNew, Body_new(One, ma, ea),
                                         Velocity_new(va[1], va[2]),
                                         Position_new(Zero, Zero)),
                        Body_new(One, mb, eb), Velocity_new(vb[1], vb[2]),
                        Position_new(One, Zero))
          /\ op = [ Call("new") EXCEPT
                      !.args = << 0, 1 >>,
                      !.manifold = Some([ a |-> 0, b |-> 1, normal |-> normal,
                                          penetration |-> penetration ]) ]
    /\ panic = NoPanic
    /\ marked = {}
    /\ generation = 0
    /\ time = 0
    /\ food_timeout = 0
    /\ foods = << >>
    /\ creatures = << >>
    /\ pc = "resolve"
    /\ ia = 0
    /\ ib = 0
    /\ fresh = << >>
    /\ handed = {}
    /\ touched = {}
    /\ contact = "skipped"
    /\ stale = FALSE
    /\ phases = << >>
    /\ effects = << >>

\* resolve(data, &m), as physics_system calls it for a manifold.
CallResolve ==
    /\ pc = "resolve"
    /\ panic = NoPanic
    /\ data' = resolve(data, op.manifold[1])
    /\ op' = [ op EXCEPT !.name = "resolve" ]
    /\ pc' = "correct"
    /\ UNCHANGED << effects, panic, marked, generation, time, food_timeout, foods,
                    creatures, ia, ib, fresh, handed, touched, contact, stale,
                    phases >>

\* correct(data, &m), which physics_system calls next.
CallCorrect ==
    /\ pc = "correct"
    /\ panic = NoPanic
    /\ data' = correct(data, op.manifold[1])
    /\ op' = [ op EXCEPT !.name = "correct" ]
    /\ pc' = "done"
    /\ UNCHANGED << effects, panic, marked, generation, time, food_timeout, foods,
                    creatures, ia, ib, fresh, handed, touched, contact, stale,
                    phases >>

ResolveNext ==
    \/ CallResolve
    \/ CallCorrect

ResolveSpec == ResolveInit /\ [][ResolveNext]_vars

\* ------------------------------------------------------------ raycast alone

\* Vector2::magnitude_squared and Vector2::magnitude of a Vector2 of f32.
fmagnitude_squared(v) == dot(v, v)
magnitude(v) == fsqrt(fmagnitude_squared(v))

\* Mutant of raycast: the entity casting the ray is a target like the others.
RECURSIVE raycast_hitting_this(_, _, _, _, _)
raycast_hitting_this(d, ray, this, entities, found) ==
    IF entities = << >>
    THEN ( IF found.result = None THEN None
           ELSE Some(<< found.result[1], found.min_dist >>) )
    ELSE
      LET e == Head(entities)
          b == vsub(ray.p2, ray.p1)
          pos == d.positions[e + 1][1].position
          radius == d.bodies[e + 1][1].radius
          a == vsub(pos, ray.p1)
          len2 == fmagnitude_squared(b)
          t == quot(dot(a, b), len2)
          a1 == scale(b, quot(dot(a, b), len2))
          a2 == vsub(a, a1)
          dist == magnitude(a1)
      IN  IF lt(t, Zero) \/ ge(t, One)
          THEN raycast_hitting_this(d, ray, this, Tail(entities), found)
          ELSE IF gt(fmagnitude_squared(a2), mul(radius, radius))
          THEN raycast_hitting_this(d, ray, this, Tail(entities), found)
          ELSE IF lt(dist, found.min_dist)
          THEN raycast_hitting_this(d, ray, this, Tail(entities),
                                    [ result |-> Some(e), min_dist |-> dist ])
          ELSE raycast_hitting_this(d, ray, this, Tail(entities), found)

\* raycast: the loop over the entities that are left, found being
\* [result, min_dist], and the value returned at its end.
RECURSIVE raycast(_, _, _, _, _)
raycast(d, ray, this, entities, found) ==
    IF entities = << >>
    THEN ( IF found.result = None THEN None
           ELSE Some(<< found.result[1], found.min_dist >>) )
    ELSE
      LET e == Head(entities)
          b == vsub(ray.p2, ray.p1)
          pos == d.positions[e + 1][1].position
          radius == d.bodies[e + 1][1].radius
          a == vsub(pos, ray.p1)
          len2 == fmagnitude_squared(b)
          t == quot(dot(a, b), len2)
          a1 == scale(b, quot(dot(a, b), len2))
          a2 == vsub(a, a1)
          dist == magnitude(a1)
      IN  IF e = this
          THEN raycast(d, ray, this, Tail(entities), found)
          ELSE IF lt(t, Zero) \/ ge(t, One)
          THEN raycast(d, ray, this, Tail(entities), found)
          ELSE IF gt(fmagnitude_squared(a2), mul(radius, radius))
          THEN raycast(d, ray, this, Tail(entities), found)
          ELSE IF lt(dist, found.min_dist)
          THEN raycast(d, ray, this, Tail(entities),
                       [ result |-> Some(e), min_dist |-> dist ])
          ELSE raycast(d, ray, this, Tail(entities), found)

\* The end points p2 of the rays, all cast from (0,0): two of a whole
\* length and one of length 0.
RayEnds == { << 4, 0 >>, << 3, 4 >>, << 0, 0 >> }

\* Three entities with a body and a position each: entity 0, which casts
\* the ray, stands at its origin.
RaycastInit ==
    /\ \E r1 \in Radii, r2 \in Radii, q1 \in Places, q2 \in Places :
          data = with_moving_body(
                    with_moving_body(
                        with_moving_body(GameDataNew, Body_new(One, One, One),
                                         Velocity_new(Zero, Zero),
                                         Position_new(Zero, Zero)),
                        Body_new(f32(r1, 1), One, One), Velocity_new(Zero, Zero),
                        Position_new(f32(q1[1], 1), f32(q1[2], 1))),
                    Body_new(f32(r2, 1), One, One), Velocity_new(Zero, Zero),
                    Position_new(f32(q2[1], 1), f32(q2[2], 1)))
    /\ panic = NoPanic
    /\ op = Call("new")
    /\ marked = {}
    /\ generation = 0
    /\ time = 0
    /\ food_timeout = 0
    /\ foods = << >>
    /\ creatures = << >>
    /\ pc = "raycast"
    /\ ia = 0
    /\ ib = 0
    /\ fresh = << >>
    /\ handed = {}
    /\ touched = {}
    /\ contact = "skipped"
    /\ stale = FALSE
    /\ phases = << >>
    /\ effects = << >>

\* let result = raycast(data, &ray, e, all) for entity 0 and one of the rays.
CallRaycast ==
    /\ pc = "raycast"
    /\ panic = NoPanic
    /\ \E end \in RayEnds :
          LET ray == [ p1 |-> << Zero, Zero >>,
                       p2 |-> << f32(end[1], 1), f32(end[2], 1) >> ]
          IN  op' = [ Call("raycast") EXCEPT
                        !.args = << ray, 0 >>,
                        !.result = raycast(data, ray, 0, << 0, 1, 2 >>,
                                           [ result |-> None,
                                             min_dist |-> Infinity ]) ]
    /\ pc' = "done"
    /\ UNCHANGED << effects, data, panic, marked, generation, time, food_timeout, foods,
                    creatures, ia, ib, fresh, handed, touched, contact, stale,
                    phases >>

RaycastNext == CallRaycast

RaycastSpec == RaycastInit /\ [][RaycastNext]_vars

\* ------------------------------------------- the rays of input_system alone

RAY_COUNT == 8
FOV_2 == f32(180, 1)

\* The headings are the whole numbers -MaxHeading..MaxHeading.
MaxHeading == 10

\* Direction::new.
Direction_new(direction) == [ direction |-> direction ]

\* The direction of ray i of a creature of heading d:
\* f = i / (RAY_COUNT - 1), then -FOV_2 * f + d + FOV_2 * f.
ray_direction(d, i) ==
    LET f == quot(f32(i, 1), minus(f32(RAY_COUNT, 1), One))
    IN  add(add(mul(neg(FOV_2), f), d), mul(FOV_2, f))

VIEW_DISTANCE == 10000

\* f32::sin_cos: the pairs (sin, cos) it may return.  Of angle 0 they are 0
\* and 1; of another angle they are left open among pairs of fractions on
\* the unit circle.
UnitPairs == { << Zero, One >>, << One, Zero >>, << f32(4, 5), f32(3, 5) >>,
               << f32(-3, 5), f32(-4, 5) >> }
sin_cos(d) == IF d = Zero THEN { << Zero, One >> } ELSE UnitPairs

\* The ray input_system casts from p1, (y, x) being the sine and cosine of
\* its direction: p2 = Vector2::new(x, y) * VIEW_DISTANCE.
ray_of(p1, sc) ==
    [ p1 |-> p1,
      p2 |-> scale(<< sc[2], sc[1] >>, f32(VIEW_DISTANCE, 1)) ]

\* The places where the creature stands.
RayOrigins == { << 0, 0 >>, << 1, 0 >>, << -3, 4 >> }

\* A creature, entity 0, with a place and a heading.
RaysInit ==
    /\ \E d \in { f32(k, 1) : k \in -MaxHeading..MaxHeading }, p \in RayOrigins :
          LET r == add_entity(GameDataNew)
          IN  data = insert_all(r.data, r.e,
                                << << "positions",
                                      Position_new(f32(p[1], 1), f32(p[2], 1)) >>,
                                   << "directions", Direction_new(d) >> >>).data
    /\ panic = NoPanic
    /\ op = [ Call("new") EXCEPT !.result = << >> ]
    /\ marked = {}
    /\ generation = 0
    /\ time = 0
    /\ food_timeout = 0
    /\ foods = << >>
    /\ creatures = << 0 >>
    /\ pc = "rays"
    /\ ia = 0
    /\ ib = 0
    /\ fresh = << >>
    /\ handed = {}
    /\ touched = {}
    /\ contact = "skipped"
    /\ stale = FALSE
    /\ phases = << >>
    /\ effects = << >>

\* One round of the loop `for i in 0..RAY_COUNT` of input_system for the
\* creature: op.result collects the directions of the rays cast so far,
\* op.args[2] is the ray of this round.
CastRay ==
    /\ pc = "rays"
    /\ panic = NoPanic
    /\ ia < RAY_COUNT
    /\ LET p1 == data.positions[creatures[1] + 1][1].position
           d == data.directions[creatures[1] + 1][1].direction
       IN  \E sc \in sin_cos(ray_direction(d, ia)) :
              op' = [ op EXCEPT !.name = "input_system",
                                !.args = << creatures[1], ray_of(p1, sc) >>,
                                !.result = Append(@, ray_direction(d, ia)) ]
    /\ ia' = ia + 1
    /\ UNCHANGED << effects, data, panic, marked, generation, time, food_timeout, foods,
                    creatures, pc, ib, fresh, handed, touched, contact, stale,
                    phases >>

RaysNext == CastRay

RaysSpec == RaysInit /\ [][RaysNext]_vars

\* ---------------------------------------------------- output_system alone

\* The number of outputs of a network.
DIR_COUNT == 4

\* Outputs, with the output vector given.
Outputs_of(output) == [ output |-> output ]

\* Mutant of max_by_key: of equal maxima the first is kept.
RECURSIVE max_by_key_first(_, _, _)
max_by_key_first(output, i, best) ==
    IF i > Len(output) THEN best - 1
    ELSE IF gt(output[i], output[best])
    THEN max_by_key_first(output, i + 1, i)
    ELSE max_by_key_first(output, i + 1, best)

\* output.iter().enumerate().max_by_key(..): the index, counted from 0, of
\* the maximum; of equal maxima Iterator::max_by_key returns the last.
\* best is the place of the maximum of the elements before place i.
RECURSIVE max_by_key(_, _, _)
max_by_key(output, i, best) ==
    IF i > Len(output) THEN best - 1
    ELSE IF gt(output[best], output[i])
    THEN max_by_key(output, i + 1, best)
    ELSE max_by_key(output, i + 1, i)

\* Mutant of random_index: the draw is not used.
random_index_fixed(random) == 0

\* random::<usize>() % DIR_COUNT.
random_index(random) == random % DIR_COUNT

\* The draws of random::<usize>().
Randoms == 0..(2 * DIR_COUNT - 1)

\* The index output_system selects for an output vector.
selected(output, random) ==
    IF \A i \in 1..Len(output) : output[i] = One
    THEN random_index(random)
    ELSE max_by_key(output, 2, 1)

\* f32::to_radians, f32::sin_cos and the product with SPEED are kept as
\* terms.
to_radians(x) == [ times_pi_over_180 |-> x ]
cos_times_SPEED(angle) == [ cos |-> angle ]
sin_times_SPEED(angle) == [ sin |-> angle ]

\* output_system for one entity: the store after it, and the index.
output_entity(d, e, random) ==
    LET output == d.outputs[e + 1][1].output
        index == selected(output, random)
        angle == to_radians(mul(quot(f32(360, 1), f32(DIR_COUNT, 1)), f32(index, 1)))
    IN  [ data |-> [ d EXCEPT
                       !.velocities[e + 1] =
                           Some(Velocity_new(cos_times_SPEED(angle),
                                             sin_times_SPEED(angle))),
                       !.directions[e + 1][1].direction = angle ],
          index |-> index ]

OutputValues == { Zero, f32(1, 2), One }

\* A creature, entity 0, with a velocity, a direction and an output vector.
OutputInit ==
    /\ \E output \in [ 1..DIR_COUNT -> OutputValues ] :
          LET r == add_entity(GameDataNew)
          IN  data = insert_all(r.data, r.e,
                                << << "velocities", Velocity_new(Zero, Zero) >>,
                                   << "directions", Direction_new(Zero) >>,
                                   << "outputs", Outputs_of(output) >> >>).data
    /\ panic = NoPanic
    /\ op = Call("new")
    /\ marked = {}
    /\ generation = 0
    /\ time = 0
    /\ food_timeout = 0
    /\ foods = << >>
    /\ creatures = << 0 >>
    /\ pc = "output_system"
    /\ ia = 0
    /\ ib = 0
    /\ fresh = << >>
    /\ handed = {}
    /\ touched = {}
    /\ contact = "skipped"
    /\ stale = FALSE
    /\ phases = << >>
    /\ effects = << >>

\* output_system(data, creatures) for the one creature.
CallOutputSystem ==
    /\ pc = "output_system"
    /\ panic = NoPanic
    /\ \E random \in Randoms :
          LET r == output_entity(data, creatures[1], random)
          IN  /\ data' = r.data
              /\ op' = [ Call("output_system") EXCEPT
                            !.args = << creatures[1] >>,
                            !.result = Some(r.index) ]
    /\ pc' = "done"
    /\ UNCHANGED << effects, panic, marked, generation, time, food_timeout, foods,
                    creatures, ia, ib, fresh, handed, touched, contact, stale,
                    phases >>

OutputNext == CallOutputSystem

OutputSpec == OutputInit /\ [][OutputNext]_vars

\* ------------------------------------------------------ f32::mutate alone

\* The traits of the parents are the whole numbers 1..MaxTrait.
MaxTrait == 3

\* Mutant of mutate: the jitter is not centred on 1.
mutate_upwards(a, b, factor, chance, mutation, random1, random2) ==
    LET result == add(mul(a, factor), mul(b, minus(One, factor)))
    IN  IF lt(random1, chance)
        THEN mul(result, add(mul(mul(random2, f32(2, 1)), mutation), One))
        ELSE result

\* Mutate for f32: a.mutate(&b, factor, chance, mutation), random1 and
\* random2 being the two draws of random::<f32>().
mutate(a, b, factor, chance, mutation, random1, random2) ==
    LET result == add(mul(a, factor), mul(b, minus(One, factor)))
    IN  IF lt(random1, chance)
        THEN mul(result, add(mul(mul(random2, f32(2, 1)), mutation),
                             minus(One, mutation)))
        ELSE result

Traits == { f32(k, 1) : k \in 1..MaxTrait }
Factors == { f32(1, 2), f32(1, 4) }
Chances == { Zero, f32(1, 2), One }
Mutations == { Zero, f32(1, 10), f32(1, 2) }

\* The arguments of a call of mutate.
MutateInit ==
    /\ \E a \in Traits, b \in Traits, factor \in Factors, chance \in Chances,
          mutation \in Mutations :
          op = [ Call("new") EXCEPT !.args = << a, b, factor, chance, mutation >> ]
    /\ data = GameDataNew
    /\ panic = NoPanic
    /\ marked = {}
    /\ generation = 0
    /\ time = 0
    /\ food_timeout = 0
    /\ foods = << >>
    /\ creatures = << >>
    /\ pc = "mutate"
    /\ ia = 0
    /\ ib = 0
    /\ fresh = << >>
    /\ handed = {}
    /\ touched = {}
    /\ contact = "skipped"
    /\ stale = FALSE
    /\ phases = << >>
    /\ effects = << >>

\* a.mutate(&b, factor, chance, mutation).
CallMutate ==
    /\ pc = "mutate"
    /\ \E random1 \in Draws, random2 \in Draws :
          op' = [ op EXCEPT
                    !.name = "mutate",
                    !.result = Some(mutate(op.args[1], op.args[2], op.args[3],
                                           op.args[4], op.args[5],
                                           random1, random2)) ]
    /\ pc' = "done"
    /\ UNCHANGED << effects, data, panic, marked, generation, time, food_timeout, foods,
                    creatures, ia, ib, fresh, handed, touched, contact, stale,
                    phases >>

MutateNext == CallMutate

MutateSpec == MutateInit /\ [][MutateNext]_vars

\* ------------------------------------------------------- quit_event alone

\* The number of creatures saved, and the greatest life of a creature.
TOP_COUNT == 2
MaxLife == 3

\* The filler of the list: (Creature::new(Kind::Vegan), Network::new(&[1, 1])).
\* entity is no part of the pair saved: it records whose copy the pair is.
filler == [ entity |-> -1, creature |-> Creature_new("Vegan"),
            network |-> "Network" ]

\* The inner loop of quit_event for creature e, from place i of top on: e
\* takes the place of the first pair whose life is less than its own.
RECURSIVE place(_, _, _, _)
place(d, top, e, i) ==
    IF i > Len(top) THEN top
    ELSE IF d.creatures[e + 1][1].life > top[i].creature.life
    THEN [ top EXCEPT ![i] = [ entity |-> e, creature |-> d.creatures[e + 1][1],
                               network |-> d.nns[e + 1][1] ] ]
    ELSE place(d, top, e, i + 1)

\* A store with one more creature, of the life given.
with_creature(d, life) ==
    LET r == add_entity(d)
        c == insert_all(r.data, r.e, CreatureComponents("Vegan")).data
    IN  [ c EXCEPT !.creatures[r.e + 1][1].life = life ]

RECURSIVE with_creatures(_, _)
with_creatures(d, lives) ==
    IF lives = << >> THEN d
    ELSE with_creatures(with_creature(d, Head(lives)), Tail(lives))

\* CREATURE_COUNT living creatures of positive life, in the list in the
\* order of their creation, and the list top of fillers.
QuitInit ==
    /\ \E lives \in [ 1..CREATURE_COUNT -> 1..MaxLife ] :
          data = with_creatures(GameDataNew, lives)
    /\ creatures = [ i \in 1..CREATURE_COUNT |-> i - 1 ]
    /\ op = [ Call("new") EXCEPT !.result = [ i \in 1..TOP_COUNT |-> filler ] ]
    /\ panic = NoPanic
    /\ marked = {}
    /\ generation = 0
    /\ time = 0
    /\ food_timeout = 0
    /\ foods = << >>
    /\ pc = "quit_event"
    /\ ia = 1
    /\ ib = 0
    /\ fresh = << >>
    /\ handed = {}
    /\ touched = {}
    /\ contact = "skipped"
    /\ stale = FALSE
    /\ phases = << >>
    /\ effects = << >>

\* One round of the outer loop of quit_event, for creature ia of the list;
\* op.result is the list top.
QuitRound ==
    /\ pc = "quit_event"
    /\ panic = NoPanic
    /\ ia <= Len(creatures)
    /\ op' = [ op EXCEPT !.name = "quit_event",
                         !.result = place(data, @, creatures[ia], 1) ]
    /\ ia' = ia + 1
    /\ UNCHANGED << effects, data, panic, marked, generation, time, food_timeout, foods,
                    creatures, pc, ib, fresh, handed, touched, contact, stale,
                    phases >>

QuitNext == QuitRound

QuitSpec == QuitInit /\ [][QuitNext]_vars

\* ------------------------------------- the integration of physics_system

\* The size of the world and the margin around it.
WIDTH == 4
HEIGHT == 3
RADIUS == 1

\* Mutant of wrap: a coordinate that left the interval is shifted by the
\* dimension alone.
wrap_by_dimension(x, dimension) ==
    IF lt(x, neg(f32(RADIUS, 1))) THEN add(x, f32(dimension, 1))
    ELSE IF gt(x, f32(dimension + RADIUS, 1)) THEN minus(x, f32(dimension, 1))
    ELSE x

\* The coordinate x after the two tests on it, dimension being WIDTH or
\* HEIGHT.
wrap(x, dimension) ==
    IF lt(x, neg(f32(RADIUS, 1))) THEN add(x, f32(dimension + RADIUS, 1))
    ELSE IF gt(x, f32(dimension + RADIUS, 1))
    THEN minus(x, f32(dimension + RADIUS, 1))
    ELSE x

\* One round of the second loop of physics_system, for entity a.
integrate_entity(d, a, delta) ==
    IF ~has(d, "velocities", a) \/ ~has(d, "positions", a) THEN d
    ELSE LET vel == d.velocities[a + 1][1].velocity
             pos == vadd(d.positions[a + 1][1].position, scale(vel, delta))
         IN  [ d EXCEPT !.positions[a + 1][1].position =
                            << wrap(pos[1], WIDTH), wrap(pos[2], HEIGHT) >> ]

\* The second loop of physics_system over the list left.
RECURSIVE integrate(_, _, _)
integrate(d, left, delta) ==
    IF left = << >> THEN d
    ELSE integrate(integrate_entity(d, Head(left), delta), Tail(left), delta)

\* A store with one more entity, which has the position given only.
with_position(d, position) ==
    LET r == add_entity(d)
    IN  insert(r.data, "positions", r.e, position).data

\* The coordinates of an entity inside the world and its margin, the
\* velocities, and the seconds of a frame.
Abscissas == { f32(-RADIUS, 1), f32(1, 2), f32(WIDTH + RADIUS, 1) }
Ordinates == { f32(-RADIUS, 1), f32(HEIGHT, 1), f32(HEIGHT + RADIUS, 1) }
Swiftness == { f32(k, 1) : k \in { -(WIDTH + RADIUS) - 1, -(WIDTH + RADIUS),
                                   -(HEIGHT + RADIUS), -1, 0, 1,
                                   HEIGHT + RADIUS, WIDTH + RADIUS } }
Deltas == { f32(1, 2), One }

\* Entity 0 has a body, a velocity and a position inside the world and its
\* margin, entity 1 a position alone; both are in the list left.
IntegrateInit ==
    /\ \E x \in Abscissas, y \in Ordinates, vx \in Swiftness, vy \in Swiftness,
          delta \in Deltas :
          /\ data = with_position(
                        with_moving_body(GameDataNew, Body_new(One, One, One),
                                         Velocity_new(vx, vy),
                                         Position_new(x, y)),
                        Position_new(x, y))
          /\ op = [ Call("new") EXCEPT !.args = << delta >> ]
    /\ creatures = << 0, 1 >>
    /\ panic = NoPanic
    /\ marked = {}
    /\ generation = 0
    /\ time = 0
    /\ food_timeout = 0
    /\ foods = << >>
    /\ pc = "integrate"
    /\ ia = 0
    /\ ib = 0
    /\ fresh = << >>
    /\ handed = {}
    /\ touched = {}
    /\ contact = "skipped"
    /\ stale = FALSE
    /\ phases = << >>
    /\ effects = << >>

\* The second loop of physics_system, with the delta of the frame.
CallIntegrate ==
    /\ pc = "integrate"
    /\ panic = NoPanic
    /\ data' = integrate(data, creatures, op.args[1])
    /\ op' = [ op EXCEPT !.name = "integrate" ]
    /\ pc' = "done"
    /\ UNCHANGED << effects, panic, marked, generation, time, food_timeout, foods,
                    creatures, ia, ib, fresh, handed, touched, contact, stale,
                    phases >>

IntegrateNext == CallIntegrate

IntegrateSpec == IntegrateInit /\ [][IntegrateNext]_vars

\* ----------------------------------------- the features of input_system

\* Inputs::new.
Inputs_new(n) == [ input |-> [ i \in 1..n |-> Zero ] ]

\* The class of entity e, which a ray of the creature this has hit.
class(d, this, e) ==
    IF d.creatures[this + 1][1].kind = "Vegan"
    THEN ( IF has(d, "foods", e) THEN One
           ELSE IF d.creatures[e + 1][1].kind = "Vegan" THEN f32(1, 2)
           ELSE Zero )
    ELSE ( IF has(d, "foods", e) THEN Zero
           ELSE IF d.creatures[e + 1][1].kind = "Vegan" THEN One
           ELSE f32(1, 2) )

\* The vector inputs after round i of the loop over the rays, result being
\* what raycast returned; place i * 2 of the code is place i * 2 + 1 here.
sense_round(d, this, inputs, i, result) ==
    IF result = None THEN inputs
    ELSE [ inputs EXCEPT
             ![i * 2 + 1] = class(d, this, result[1][1]),
             ![i * 2 + 2] = quot(result[1][2], f32(VIEW_DISTANCE, 1)) ]

\* A store with one more entity: a food, or a creature of the kind given.
with_target(d, what) ==
    LET r == add_entity(d)
    IN  IF what = "Food" THEN insert_all(r.data, r.e, FoodComponents).data
        ELSE [ insert_all(r.data, r.e, CreatureComponents(what)).data
                 EXCEPT !.inputs[r.e + 1] = << Inputs_new(2 * RAY_COUNT) >> ]

Kinds == { "Vegan", "Carnivorous" }

\* What raycast may return for a ray of entity 0: nothing, or one of the
\* two other entities and its distance.
RaycastResults == { None, Some(<< 1, f32(2500, 1) >>), Some(<< 2, f32(5000, 1) >>) }

\* Entity 0 is the creature that senses; entities 1 and 2 are a food or a
\* creature each.  op.result is the vector inputs, vec![1.0; RAY_COUNT * 2],
\* and op.args[2] lists what raycast returned for the rays cast so far.
InputInit ==
    /\ \E kind \in Kinds, t1 \in Kinds \cup { "Food" }, t2 \in Kinds \cup { "Food" } :
          data = with_target(with_target(with_target(GameDataNew, kind), t1), t2)
    /\ op = [ Call("new") EXCEPT !.args = << 0, << >> >>,
                                 !.result = [ i \in 1..(RAY_COUNT * 2) |-> One ] ]
    /\ creatures = << 0 >>
    /\ panic = NoPanic
    /\ marked = {}
    /\ generation = 0
    /\ time = 0
    /\ food_timeout = 0
    /\ foods = << >>
    /\ pc = "input_system"
    /\ ia = 0
    /\ ib = 0
    /\ fresh = << >>
    /\ handed = {}
    /\ touched = {}
    /\ contact = "skipped"
    /\ stale = FALSE
    /\ phases = << >>
    /\ effects = << >>

\* One round of the loop `for i in 0..RAY_COUNT` of input_system from the
\* result of raycast on.
SenseRound ==
    /\ pc = "input_system"
    /\ panic = NoPanic
    /\ ia < RAY_COUNT
    /\ \E result \in RaycastResults :
          op' = [ op EXCEPT
                    !.name = "input_system",
                    !.args = << op.args[1], Append(op.args[2], result) >>,
                    !.result = sense_round(data, op.args[1], @, ia, result) ]
    /\ ia' = ia + 1
    /\ UNCHANGED << effects, data, panic, marked, generation, time, food_timeout, foods,
                    creatures, pc, ib, fresh, handed, touched, contact, stale,
                    phases >>

\* data[e.component::<Inputs>()].input = DVector::from_vec(inputs).
StoreInputs ==
    /\ pc = "input_system"
    /\ panic = NoPanic
    /\ ia = RAY_COUNT
    /\ data' = [ data EXCEPT !.inputs[op.args[1] + 1][1].input = op.result ]
    /\ pc' = "done"
    /\ UNCHANGED << effects, op, panic, marked, generation, time, food_timeout, foods,
                    creatures, ia, ib, fresh, handed, touched, contact, stale,
                    phases >>

InputNext ==
    \/ SenseRound
    \/ StoreInputs

InputSpec == InputInit /\ [][InputNext]_vars

\* -------------------------------------------------------- nn_system alone

\* The panic of a matrix product whose dimensions do not fit.
DimensionsMismatch == "Matrix multiplication dimensions mismatch"

\* The ticks of a run.
MaxTicks == 5

\* DVector::zeros.
zeros(n) == [ i \in 1..n |-> Zero ]

\* Desired::new.
Desired_new(n) == [ desired |-> zeros(n) ]

\* The pairs (input, output) of the layers: the first takes
\* layers[0] + last values.
shapes(layers) ==
    [ l \in 1..(Len(layers) - 1) |->
        << ( IF l = 1 THEN layers[1] + layers[Len(layers)] ELSE layers[l] ),
           layers[l + 1] >> ]

\* Network::new; of a matrix of weights and a vector of biases, which are
\* drawn at random, the sizes alone are kept.
Network_new(layers) ==
    [ cache_next |-> zeros(layers[Len(layers)]),
      cache_prev |-> zeros(layers[Len(layers)]),
      weights |-> shapes(layers) ]

\* The vectors a network of n outputs may return: the sigmoids of sums
\* that the weights drawn at random decide.
OutputVectors(n) ==
    { [ i \in 1..n |-> IF i <= k THEN f32(1, 4) ELSE f32(3, 4) ] : k \in 0..2 }

\* The vectors input_system may write.
InputVectors ==
    { [ i \in 1..(RAY_COUNT * 2) |-> v ] : v \in { Zero, f32(3, 4), One } }

\* Network::feedforward(&input) returning output: the vector fed to the
\* first layer, the network after the call and the panic of the product
\* w * layer.
feedforward(network, input, output) ==
    LET layer == network.cache_next \o input
    IN  IF Len(layer) # network.weights[1][1]
        THEN [ layer |-> layer, network |-> network, panic |-> DimensionsMismatch ]
        ELSE [ layer |-> layer,
               network |-> [ network EXCEPT !.cache_next = output ],
               panic |-> NoPanic ]

\* Network::update(&input, &desired, eta): the vector fed to the first layer
\* in backprop, the network after the call and the panic of the product
\* w * &activations[0].  output plays no part.
update(network, input, output) ==
    LET layer == network.cache_prev \o input
    IN  IF Len(layer) # network.weights[1][1]
        THEN [ layer |-> layer,
               network |-> [ network EXCEPT !.cache_prev = input ],
               panic |-> DimensionsMismatch ]
        ELSE [ layer |-> layer,
               network |-> [ network EXCEPT !.cache_prev = input ],
               panic |-> NoPanic ]

\* One round of nn_system, for entity e, output being what the network
\* returns: [data, panic, fed], fed listing the vectors fed to the first
\* layer by feedforward and by update.
nn_entity(d, e, output) ==
    LET input == d.inputs[e + 1][1].input
        f == feedforward(d.nns[e + 1][1], input, output)
        u == update(f.network, input, output)
    IN  IF f.panic # NoPanic
        THEN [ data |-> d, panic |-> f.panic, fed |-> << f.layer >> ]
        ELSE IF u.panic # NoPanic
        THEN [ data |-> [ d EXCEPT !.nns[e + 1][1] = u.network ],
               panic |-> u.panic, fed |-> << f.layer, u.layer >> ]
        ELSE [ data |-> [ d EXCEPT !.nns[e + 1][1] = u.network,
                                   !.outputs[e + 1][1].output = output ],
               panic |-> NoPanic, fed |-> << f.layer, u.layer >> ]

\* A creature, entity 0, as GameState::new makes it, with a network of
\* RAY_COUNT * 2 inputs; of the sizes of its output the second is the one
\* that equals the size of the input, as in the program.
NnInit ==
    /\ \E last \in { DIR_COUNT, RAY_COUNT * 2 } :
          LET r == add_entity(GameDataNew)
          IN  data = insert_all(r.data, r.e,
                        << << "creatures", Creature_new("Vegan") >>,
                           << "nns", Network_new(<< RAY_COUNT * 2, last >>) >>,
                           << "inputs", Inputs_new(RAY_COUNT * 2) >>,
                           << "outputs", Outputs_of(zeros(last)) >>,
                           << "desired", Desired_new(last) >> >>).data
    /\ op = Call("new")
    /\ creatures = << 0 >>
    /\ panic = NoPanic
    /\ marked = {}
    /\ generation = 0
    /\ time = 0
    /\ food_timeout = 0
    /\ foods = << >>
    /\ pc = "input_system"
    /\ ia = 0
    /\ ib = 0
    /\ fresh = << >>
    /\ handed = {}
    /\ touched = {}
    /\ contact = "skipped"
    /\ stale = FALSE
    /\ phases = << >>
    /\ effects = << >>

\* input_system writes the Inputs of the creature for the tick.
NnSense ==
    /\ pc = "input_system"
    /\ panic = NoPanic
    /\ time < MaxTicks
    /\ \E input \in InputVectors :
          data' = [ data EXCEPT !.inputs[creatures[1] + 1][1].input = input ]
    /\ op' = Call("input_system")
    /\ pc' = "nn_system"
    /\ UNCHANGED << effects, panic, marked, generation, time, food_timeout, foods,
                    creatures, ia, ib, fresh, handed, touched, contact, stale,
                    phases >>

\* nn_system(data, creatures) for the one creature; op.args lists the
\* vectors fed to the first layer.
CallNnSystem ==
    /\ pc = "nn_system"
    /\ panic = NoPanic
    /\ \E output \in OutputVectors(Len(data.outputs[creatures[1] + 1][1].output)) :
          LET r == nn_entity(data, creatures[1], output)
          IN  /\ data' = r.data
              /\ panic' = r.panic
              /\ op' = [ Call("nn_system") EXCEPT !.args = r.fed ]
    /\ pc' = "input_system"
    /\ time' = time + 1
    /\ UNCHANGED << effects, marked, generation, food_timeout, foods, creatures, ia, ib,
                    fresh, handed, touched, contact, stale, phases >>

NnNext ==
    \/ NnSense
    \/ CallNnSystem

NnSpec == NnInit /\ [][NnNext]_vars

\* ------------------------------------------- aging and mating of creatures

\* The greatest delta of a tick, the number of creatures of a run and the
\* number of foods a creature has eaten before the run.
MaxFrame == 2
MaxPopulation == 5
MaxEaten == 4

\* Two creatures of one kind, as GameState::new makes them, which have
\* eaten the same number of foods since.  effects lists
\* the events of the whole run: << "age", delta >> for an aging loop,
\* << "mate", a, b >> for a pair that mated, << "born", e >> for an entity a
\* commit created.
CooldownInit ==
    /\ \E kind \in Kinds, eaten \in { 0, MaxEaten } :
          /\ data = [ with_target(with_target(GameDataNew, kind), kind) EXCEPT
                        !.creatures[1][1].hunger = @ - eaten * FOOD,
                        !.creatures[2][1].hunger = @ - eaten * FOOD ]
          /\ op = [ Call("new") EXCEPT !.args = << kind >> ]
    /\ creatures = << 0, 1 >>
    /\ panic = NoPanic
    /\ marked = {}
    /\ generation = 0
    /\ time = 0
    /\ food_timeout = 0
    /\ foods = << >>
    /\ pc = "idle"
    /\ ia = 0
    /\ ib = 0
    /\ fresh = << >>
    /\ handed = {}
    /\ touched = {}
    /\ contact = "skipped"
    /\ stale = FALSE
    /\ phases = << >>
    /\ effects = << >>

\* The aging loop of update, the commit that follows it and the removal
\* of the starved from self.creatures.
CooldownAging ==
    /\ pc = "idle"
    /\ panic = NoPanic
    /\ time < MaxTicks
    /\ \E delta \in 1..MaxFrame :
          LET r == aging_loop([ data |-> data, panic |-> NoPanic,
                                stale |-> FALSE, marked |-> {}, touched |-> {} ],
                              creatures, delta)
              c == commit(r.data)
          IN  /\ data' = IF r.panic # NoPanic THEN r.data ELSE c.data
              /\ panic' = IF r.panic # NoPanic THEN r.panic ELSE c.panic
              /\ creatures' = IF panic' = NoPanic
                              THEN drop_creatures(creatures, c.removed)
                              ELSE creatures
              /\ effects' = Append(effects, << "age", delta >>)
    /\ time' = time + 1
    /\ pc' = "physics"
    /\ UNCHANGED << op, marked, generation, food_timeout, foods, ia, ib, fresh,
                    handed, touched, contact, stale, phases >>

\* One round of the pair loop of physics_system for two creatures that
\* overlap.
CooldownPair ==
    /\ pc = "physics"
    /\ panic = NoPanic
    /\ Len(data.creatures) + data.lazy.entity < MaxPopulation
    /\ \E a \in Range(creatures), b \in Range(creatures), random \in Draws :
          \E r \in { physics_pair(data, a, b, TRUE, FALSE, random) } :
              /\ data' = r.data
              /\ panic' = r.panic
              /\ effects' = effects \o effects_of(data, data', a, b)
    /\ UNCHANGED << op, marked, generation, time, food_timeout, foods, creatures,
                    pc, ia, ib, fresh, handed, touched, contact, stale, phases >>

\* The commit after physics_system and the list maintenance: the entities
\* created join self.creatures.
CooldownCommit ==
    /\ pc = "physics"
    /\ panic = NoPanic
    /\ LET c == commit(data)
       IN  /\ data' = c.data
           /\ panic' = c.panic
           /\ creatures' = IF c.panic = NoPanic
                           THEN drop_creatures(creatures, c.removed) \o c.created
                           ELSE creatures
           /\ effects' = effects \o [ i \in 1..Len(c.created) |->
                                        << "born", c.created[i] >> ]
    /\ pc' = "idle"
    /\ UNCHANGED << op, marked, generation, time, food_timeout, foods, ia, ib,
                    fresh, handed, touched, contact, stale, phases >>

CooldownNext ==
    \/ CooldownAging
    \/ CooldownPair
    \/ CooldownCommit

CooldownSpec == CooldownInit /\ [][CooldownNext]_vars

\* ------------------------------------- GameState::new with a saved top list

\* The panic of an arithmetic overflow in a build with overflow checks.
Overflow == "attempt to subtract with overflow"

\* x - y on usize, for x in 0..(2^63 - 1) or already wrapped and y no larger
\* than that.  With overflow checks (the debug profile) y > x panics;
\* without them (the release profile) the result wraps modulo 2^64.  A
\* wrapped value 2^64 - k is written -k, so that wrapping is plain
\* subtraction and `== 0` is plain equality.
usize_sub(x, y, checks) ==
    IF 0 <= x /\ x < y /\ checks
    THEN [ value |-> x, panic |-> Overflow ]
    ELSE [ value |-> x - y, panic |-> NoPanic ]

\* The pairs (Creature, Network) of a saved list whose creatures have the
\* kinds of the sequence: each creature was saved with some life.
top_of(kinds) ==
    [ i \in 1..Len(kinds) |->
        << [ Creature_new(kinds[i]) EXCEPT !.life = MaxLife ], "Network" >> ]

\* The sequences of kinds of length 0 .. n.
RECURSIVE KindLists(_)
KindLists(n) ==
    IF n = 0 THEN { << >> }
    ELSE KindLists(n - 1) \cup
         { Append(s, k) : s \in { t \in KindLists(n - 1) : Len(t) = n - 1 },
                          k \in Kinds }

\* The components a loaded pair is given, lines 119-128.
LoadedComponents(pair) ==
    << << "creatures", pair[1] >> >> \o
    [ i \in 1..(Len(CreatureComponents(pair[1].kind)) - 1) |->
        IF CreatureComponents(pair[1].kind)[i + 1][1] = "nns"
        THEN << "nns", pair[2] >>
        ELSE CreatureComponents(pair[1].kind)[i + 1] ]

\* GameState::new is entered: a GameData::new store, a saved list of at most
\* CREATURE_COUNT pairs at the path given (the empty list when there is
\* none) and the profile of the build.  op.args is << top, overflow checks >>
\* and op.result the counters [new_count, carnivores].
SeedInit ==
    /\ data = GameDataNew
    /\ \E kinds \in KindLists(CREATURE_COUNT) : \E checks \in BOOLEAN :
          op = [ Call("new") EXCEPT
                   !.args = << top_of(kinds), checks >>,
                   !.result = [ new_count |-> 0, carnivores |-> 0 ] ]
    /\ creatures = << >>
    /\ foods = << >>
    /\ panic = NoPanic
    /\ marked = {}
    /\ generation = 0
    /\ time = 0
    /\ food_timeout = 0
    /\ pc = "seed_foods"
    /\ ia = 0
    /\ ib = 0
    /\ fresh = << >>
    /\ handed = {}
    /\ touched = {}
    /\ contact = "skipped"
    /\ stale = FALSE
    /\ phases = << >>
    /\ effects = << >>

\* Lines 58-82 and 84-86: the foods are spawned, new_count and carnivores
\* get their first values.
SeedFoods ==
    /\ pc = "seed_foods"
    /\ panic = NoPanic
    /\ \E f \in { spawn_food([ data |-> data, list |-> foods ], FOOD_COUNT) } :
          /\ data' = f.data
          /\ foods' = f.list
    /\ op' = [ op EXCEPT !.result = [ new_count |-> CREATURE_COUNT,
                                      carnivores |-> CARNIVORES ] ]
    /\ pc' = "seed_load"
    /\ UNCHANGED << effects, panic, marked, generation, time, food_timeout,
                    creatures, ia, ib, fresh, handed, touched, contact, stale,
                    phases >>

\* Line 98: new_count -= top.len().
SeedLoad ==
    /\ pc = "seed_load"
    /\ panic = NoPanic
    /\ \E r \in { usize_sub(op.result.new_count, Len(op.args[1]), op.args[2]) } :
          /\ panic' = r.panic
          /\ op' = [ op EXCEPT !.result.new_count = r.value ]
    /\ pc' = IF panic' # NoPanic THEN pc
             ELSE IF op.args[1] = << >> THEN "seed_new" ELSE "seed_top"
    /\ ia' = 1
    /\ UNCHANGED << effects, data, marked, generation, time, food_timeout,
                    foods, creatures, ib, fresh, handed, touched, contact,
                    stale, phases >>

\* Lines 100-130: one round of the loop over the loaded pairs, for pair ia.
\* carnivores -= 1 comes before the inserts.
SeedTop ==
    /\ pc = "seed_top"
    /\ panic = NoPanic
    /\ ia <= Len(op.args[1])
    /\ LET pair == op.args[1][ia]
           a == add_entity(data)
           c == IF pair[1].kind = "Vegan"
                THEN [ value |-> op.result.carnivores, panic |-> NoPanic ]
                ELSE usize_sub(op.result.carnivores, 1, op.args[2])
       IN  /\ panic' = c.panic
           /\ op' = [ op EXCEPT !.result.carnivores = c.value ]
           /\ data' = IF c.panic # NoPanic THEN a.data
                      ELSE insert_all(a.data, a.e, LoadedComponents(pair)).data
           /\ creatures' = IF c.panic # NoPanic THEN creatures
                           ELSE Append(creatures, a.e)
    /\ ia' = IF panic' # NoPanic THEN ia ELSE ia + 1
    /\ pc' = IF panic' = NoPanic /\ ia = Len(op.args[1]) THEN "seed_new" ELSE pc
    /\ UNCHANGED << effects, marked, generation, time, food_timeout, foods, ib,
                    fresh, handed, touched, contact, stale, phases >>

\* Lines 134-167: the loop for _ in 0..new_count, whose range is fixed when
\* the loop is entered, and the return of the state.
SeedNew ==
    /\ pc = "seed_new"
    /\ panic = NoPanic
    /\ \E c \in { spawn_creatures([ data |-> data, list |-> creatures ],
                                  op.result.new_count,
                                  op.result.carnivores) } :
          /\ data' = c.data
          /\ creatures' = c.list
    /\ op' = [ op EXCEPT !.name = "seeded" ]
    /\ pc' = "idle"
    /\ UNCHANGED << effects, panic, marked, generation, time, food_timeout,
                    foods, ia, ib, fresh, handed, touched, contact, stale,
                    phases >>

SeedNext == SeedFoods \/ SeedLoad \/ SeedTop \/ SeedNew

SeedSpec == SeedInit /\ [][SeedNext]_vars

\* -------------------------------------------------- claims about the game

\* Commit has cleared the slots of entity e: e is in the deletion set and
\* no longer queued for removal.
Cleared(d, e) == e \in d.delete /\ e \notin Range(d.lazy.remove)

\* The indices handed out in the run so far, whatever the generation.
HandedInRun == { p[2] : p \in handed }

\* The indices handed out so far in generation g.
HandedIn(g) == { p[2] : p \in { q \in handed : q[1] = g } }

\* A slot of a cleared entity that is None stays None.
ClearedStaysEmpty ==
    \A c \in Columns : \A e \in 0..(Len(data[c]) - 1) :
        ( Cleared(data, e) /\ data[c][e + 1] = None )
            => ( e < Len(data'[c]) /\ data'[c][e + 1] = None )

\* C7 as stated: in a run of update ticks no index is handed out twice, by
\* add_entity or by commit, the index counter only grows, and a slot commit
\* has cleared for a deleted entity is never filled again.
C7_NoReuseWithinRun ==
    [][ /\ NoDuplicates(fresh')
        /\ \A i \in 1..Len(fresh') : fresh'[i] \notin HandedInRun
        /\ data'.entity >= data.entity + Len(fresh')
        /\ ClearedStaysEmpty ]_vars

\* C7, amended: between two generation resets no index is handed out twice,
\* by add_entity or by commit, the index counter only grows, and a slot
\* commit has cleared for a deleted entity is never filled again; a
\* generation reset starts a new store whose indices start at 0 again.
C7_NoReuseWithinGeneration ==
    [][ /\ NoDuplicates(fresh')
        /\ \A i \in 1..Len(fresh') : fresh'[i] \notin HandedIn(generation')
        /\ generation' = generation =>
              /\ data'.entity >= data.entity + Len(fresh')
              /\ ClearedStaysEmpty ]_vars

\* A commit of the game has handed out the indices of deferred creations
\* while a cleared entity exists, after food was created eagerly in a tick.
C7_Witness ==
    /\ op.name = "commit"
    /\ op.created # << >>
    /\ fresh = op.created
    /\ panic = NoPanic
    /\ \E e \in Entities(data) : Cleared(data, e) /\ SlotsEmpty(data, e)
    /\ Len(foods) > 0

\* C9: no phase of a tick indexes a component of an entity that is pending
\* deletion or already cleared, and the panic "entity doesn't have
\* component" is never raised.
C9_NoStaleAccess == ~stale /\ panic # MissingComponent

\* A tick has run all its passes, in a generation where one entity was
\* cleared by commit and another is listed, and nothing panicked.
C9_Witness ==
    /\ pc = "idle"
    /\ phases = update_phases
    /\ panic = NoPanic
    /\ time >= 2
    /\ \E e \in Entities(data) : Cleared(data, e) /\ SlotsEmpty(data, e)
    /\ creatures # << >>
    /\ ~stale

\* The number of phases of the tick that are finished when update stands at p.
finished_at(p) ==
    CASE p = "commit1" -> 1
      [] p = "physics" -> 2
      [] p = "commit2" -> 3
      [] p = "sensing" -> 4
      [] p = "inference" -> 5
      [] p = "output" -> 6

\* C10: a tick that is not a generation reset runs aging, commit, physics,
\* commit, sensing, inference, output once each in that order: the finished
\* phases are always the first ones of that sequence up to the statement
\* update stands at, and between two ticks they are all of it (or none,
\* before the first tick, after a reset or after a panic in the aging loop).
C10_PhaseOrder ==
    IF pc = "idle"
    THEN phases = update_phases \/ phases = << >>
    ELSE phases = SubSeq(update_phases, 1, finished_at(pc))

\* The second tick of a generation has run all seven phases.
C10_Witness ==
    /\ pc = "idle"
    /\ phases = update_phases
    /\ time = 2
    /\ panic = NoPanic

\* The pair the next round of the pair loop is about.
pair_a == (creatures \o foods)[ia]
pair_b == (creatures \o foods)[ib]

\* The step is a round of the pair loop of physics_system.
PairRound == pc = "physics" /\ ia <= Len(creatures \o foods) /\ pc' = "physics"

\* The step is the integration loop of physics_system.
IntegrationStep == pc = "physics" /\ ia > Len(creatures \o foods)

\* C11: an entity marked for deletion during a physics pass takes part in
\* no later round of that pass (the round ends at the has(Body) test: no
\* component is indexed, nothing changes) and the integration loop does not
\* move it.
C11_DeletedTakesNoPart ==
    [][ /\ PairRound =>
            /\ touched' \cap marked = {}
            /\ ( pair_a \in marked \/ pair_b \in marked ) =>
                  ( data' = data /\ marked' = marked /\ contact' = "skipped" )
        /\ IntegrationStep => touched' \cap marked = {} ]_vars

\* A physics pass is over in which a creature was eaten before the last
\* rounds: the integration loop has moved others, not the eaten one.
C11_Witness ==
    /\ pc = "commit2"
    /\ panic = NoPanic
    /\ touched # {}
    /\ \E e \in marked \cap Range(creatures) :
          e \notin touched /\ e # creatures[Len(creatures)]

\* C12: an overlapping pair that is separating (veln > 0) is skipped
\* entirely in that tick: no gameplay side effect (eating, predation,
\* reproduction) is triggered from that pair.
C12_SeparatingSkipped ==
    [][ ( PairRound /\ contact' = "separating" ) =>
            ( data' = data /\ marked' = marked ) ]_vars

\* Entity e has a Creature, a Food, in the live arrays (whatever the
\* deletion set says).
IsCreature(d, e) == d.creatures[e + 1] # None
IsFood(d, e) == d.foods[e + 1] # None
creature_of(d, e) == d.creatures[e + 1][1]

\* The round of the pair loop found a manifold and ran to its end.
Collision == PairRound /\ contact' \in { "closing", "separating" } /\ panic' = NoPanic

\* The step is the commit after the physics pass, and it returned.
SecondCommit == pc = "commit2" /\ panic' = NoPanic

\* eater has eaten the other entity in this step: its hunger is down by
\* FOOD, once; eaten is marked and queued for removal, once; no offspring
\* is queued.
Eaten(eater, eaten) ==
    /\ creature_of(data', eater).hunger = creature_of(data, eater).hunger - FOOD
    /\ eaten \in data'.delete
    /\ data'.lazy.remove = Append(data.lazy.remove, eaten)
    /\ marked' = marked \cup {eaten}
    /\ data'.lazy.entity = data.lazy.entity

\* C13: when a Carnivorous and a Vegan creature collide, in either order of
\* the pair, the carnivore's hunger decreases by FOOD once, the vegan is
\* marked for deletion, once, and no offspring is queued; the commit after
\* the pass returns the vegan as removed, clears its slots and the creature
\* list drops it.
C13_Predation ==
    [][ /\ ( Collision /\ IsCreature(data, pair_a) /\ IsCreature(data, pair_b) ) =>
            /\ ( creature_of(data, pair_a).kind = "Carnivorous"
                 /\ creature_of(data, pair_b).kind = "Vegan" )
                    => Eaten(pair_a, pair_b)
            /\ ( creature_of(data, pair_a).kind = "Vegan"
                 /\ creature_of(data, pair_b).kind = "Carnivorous" )
                    => Eaten(pair_b, pair_a)
        /\ NoDuplicates(data'.lazy.remove)
        /\ SecondCommit =>
              \A v \in marked :
                 /\ v \in Range(op'.removed)
                 /\ SlotsEmpty(data', v)
                 /\ v \notin Range(creatures') ]_vars

\* A vegan has just been eaten: it is marked and still holds its slots.
C13_Witness ==
    /\ pc = "physics"
    /\ panic = NoPanic
    /\ contact \in { "closing", "separating" }
    /\ \E v \in marked \cap touched :
          IsCreature(data, v) /\ creature_of(data, v).kind = "Vegan"

\* C14: when a creature of any kind collides with a Food, in either order
\* of the pair, the creature's hunger decreases by FOOD and the Food is
\* marked for deletion; a Food already marked is eaten by no other creature
\* in that pass.
C14_Feeding ==
    [][ /\ ( Collision /\ IsCreature(data, pair_a) /\ IsFood(data, pair_b)
             /\ ~IsCreature(data, pair_b) ) => Eaten(pair_a, pair_b)
        /\ ( Collision /\ IsFood(data, pair_a) /\ IsCreature(data, pair_b)
             /\ ~IsCreature(data, pair_a) ) => Eaten(pair_b, pair_a)
        /\ ( PairRound /\ ( ( pair_a \in marked /\ IsFood(data, pair_a) )
                            \/ ( pair_b \in marked /\ IsFood(data, pair_b) ) ) )
              => ( data' = data /\ marked' = marked )
        /\ \A i, j \in 1..Len(data'.lazy.remove) :
              ( data'.lazy.remove[i] = data'.lazy.remove[j]
                /\ IsFood(data', data'.lazy.remove[i]) ) => i = j ]_vars

\* A Food has been eaten in this pass and a later round about it, with
\* another creature, has been skipped.
C14_Witness ==
    /\ pc = "physics"
    /\ panic = NoPanic
    /\ contact = "skipped"
    /\ ia <= Len(creatures)
    /\ ib > 1
    /\ pair_a \notin marked
    /\ LET f == (creatures \o foods)[ib - 1]
       IN  f \in marked /\ IsFood(data, f)

\* The round of the pair loop found a manifold between two creatures of
\* the same kind.
SameKindCollision ==
    /\ Collision
    /\ IsCreature(data, pair_a) /\ IsCreature(data, pair_b)
    /\ creature_of(data, pair_a).kind = creature_of(data, pair_b).kind

\* mate was invoked in this step: it queues at least one child.
Mated == data'.lazy.entity > data.lazy.entity

\* C15 as stated: for a colliding pair of creatures of the same kind,
\* reproduction is invoked exactly when both timeouts are <= 0.
C15_EligibleAtZero ==
    [][ SameKindCollision =>
          ( Mated <=> ( creature_of(data, pair_a).timeout <= 0
                        /\ creature_of(data, pair_b).timeout <= 0 ) ) ]_vars

\* C15, amended: for a colliding pair of creatures of the same kind,
\* reproduction is invoked exactly when both timeouts are below 0; a timeout
\* of exactly 0 is not eligible.
C15_EligibleBelowZero ==
    [][ SameKindCollision =>
          ( Mated <=> ( creature_of(data, pair_a).timeout < 0
                        /\ creature_of(data, pair_b).timeout < 0 ) ) ]_vars

\* Two creatures of the same kind have just mated.
C15_Witness ==
    /\ pc = "physics"
    /\ panic = NoPanic
    /\ contact \in { "closing", "separating" }
    /\ data.lazy.entity > 0
    /\ Cardinality(touched) = 2
    /\ \A e \in touched : IsCreature(data, e) /\ e \notin data.delete

\* The cooldown constant of a kind.
cooldown(kind) == IF kind = "Vegan" THEN VEGAN_TIMEOUT ELSE CARNIVORE_TIMEOUT

\* C16: when two overlapping creatures of the same kind, both eligible
\* (timeout below 0), are processed, at least one offspring is queued in the
\* deferred buffer with the components the buffer holds, both parents'
\* timeouts equal the kind's cooldown constant afterwards, and neither
\* parent is marked for deletion.
C16_Reproduction ==
    [][ ( SameKindCollision
          /\ creature_of(data, pair_a).timeout < 0
          /\ creature_of(data, pair_b).timeout < 0 ) =>
            /\ data'.lazy.entity >= data.lazy.entity + 1
            /\ \A c \in LazyColumns : Len(data'.lazy[c]) = data'.lazy.entity
            /\ \A i \in (data.lazy.entity + 1)..data'.lazy.entity :
                  /\ data'.lazy.creatures[i] # None
                  /\ data'.lazy.creatures[i][1].kind = creature_of(data, pair_a).kind
            /\ creature_of(data', pair_a).timeout
                  = cooldown(creature_of(data, pair_a).kind)
            /\ creature_of(data', pair_b).timeout
                  = cooldown(creature_of(data, pair_a).kind)
            /\ pair_a \notin data'.delete /\ pair_b \notin data'.delete
            /\ marked' = marked
            /\ data'.lazy.remove = data.lazy.remove ]_vars

\* Two vegans have just mated and queued two children; both are back at the
\* cooldown.
C16_Witness ==
    /\ pc = "physics"
    /\ panic = NoPanic
    /\ data.lazy.entity = 2
    /\ Cardinality(touched) = 2
    /\ \A e \in touched :
          /\ IsCreature(data, e)
          /\ creature_of(data, e).kind = "Vegan"
          /\ creature_of(data, e).timeout = VEGAN_TIMEOUT
          /\ e \notin data.delete

\* The entities of the store that commit has cleared.
ClearedEntities(d) == { e \in Entities(d) : Cleared(d, e) }

\* C17: the creatures the aging loop found starved (the entities marked when
\* the first commit starts) are all in the removed list of that commit, are
\* not in the creature list after it, and their slots are cleared; an entity
\* commit has cleared stays cleared for the rest of the generation and no
\* pass of that tick or of a later one (collision, integration, sensing,
\* inference, output, aging) indexes it.
C17_StarvedRemoved ==
    [][ /\ (pc = "commit1" /\ panic' = NoPanic) =>
              /\ marked \subseteq Range(op'.removed)
              /\ marked \cap Range(creatures') = {}
              /\ marked \subseteq ClearedEntities(data')
              /\ \A e \in marked : SlotsEmpty(data', e)
        /\ touched' \cap ClearedEntities(data) = {}
        /\ generation' = generation =>
              ClearedEntities(data) \subseteq ClearedEntities(data') ]_vars

\* The first commit of a tick has just returned a starved creature in its
\* removed list, with other creatures left in the list for the physics pass.
C17_Witness ==
    /\ pc = "physics"
    /\ phases = << "aging", "commit" >>
    /\ op.name = "commit"
    /\ op.removed # << >>
    /\ panic = NoPanic
    /\ creatures # << >>
    /\ time < GEN_TIME

\* The creatures of the list born in this tick: the aging loop has not
\* advanced their life yet.
Born(d, list) ==
    { e \in Range(list) : IsCreature(d, e) /\ creature_of(d, e).life = 0 }

\* C18: during the physics pass the live entity counter and the length of
\* every live array stay as they are, whatever offspring are queued in the
\* deferred buffer, and both entities of every pair are live ones; the
\* commit after the pass gives each offspring a live index and puts it in
\* the creature list; and the sensing, inference and output passes of that
\* tick run to their end and index every creature born in the tick.
C18_OffspringDeferred ==
    [][ /\ pc = "physics" =>
              /\ data'.entity = data.entity
              /\ \A c \in Columns : Len(data'[c]) = Len(data[c])
              /\ PairRound => ( pair_a < data.entity /\ pair_b < data.entity )
        /\ pc = "commit2" =>
              /\ panic' = NoPanic
              /\ Len(op'.created) = data.lazy.entity
              /\ \A i \in 1..Len(op'.created) :
                    /\ op'.created[i] = data.entity + i - 1
                    /\ op'.created[i] < data'.entity
                    /\ op'.created[i] \in Range(creatures')
                    /\ op'.created[i] \in Born(data', creatures')
        /\ pc \in { "sensing", "inference", "output" } =>
              /\ panic' = NoPanic
              /\ Born(data, creatures) \subseteq touched' ]_vars

\* The slots of the live arrays that hold no component.
EmptySlots(d) ==
    { << c, i >> \in Columns \X (1..d.entity) : i <= Len(d[c]) /\ d[c][i] = None }

\* C19: no step of the collision pass (a pair round or the integration) and
\* no step of the sensing pass is a commit, and each of them leaves the live
\* entity counter, the length of every live component array, the set of
\* empty slots and the set of entities commit has cleared as they were.
C19_NoCommitInPass ==
    [][ (pc \in { "physics", "sensing" }) =>
          /\ op'.name # "commit"
          /\ data'.entity = data.entity
          /\ \A c \in Columns : Len(data'[c]) = Len(data[c])
          /\ EmptySlots(data') = EmptySlots(data)
          /\ ClearedEntities(data') = ClearedEntities(data)
      ]_vars

\* In the middle of a collision pass an eaten entity is queued for removal
\* and an offspring is queued in the buffer, next to a slot cleared earlier.
C19_Witness ==
    /\ pc = "physics"
    /\ panic = NoPanic
    /\ ia > 1
    /\ ia <= Len(creatures \o foods)
    /\ data.lazy.remove # << >>
    /\ data.lazy.entity > 0
    /\ EmptySlots(data) # {}

\* The call gen_manifold(data, A, B) has returned.
Returned == op.name = "gen_manifold" /\ panic = NoPanic

\* The arguments of the call and what the claim speaks of: the radii, the
\* vector from the centre of A to that of B and the distance.
radius_a == data.bodies[op.args[1] + 1][1].radius
radius_b == data.bodies[op.args[2] + 1][1].radius
centre_a == data.positions[op.args[1] + 1][1].position
centre_b == data.positions[op.args[2] + 1][1].position
distance == sqrt(magnitude_squared(sub(centre_b, centre_a)))

\* The manifold is the regular one: penetration = radius_a + radius_b -
\* distance >= 0 and the normal is the unit vector from A towards B.
RegularManifold(m) ==
    /\ m.penetration = radius_a + radius_b - distance
    /\ m.penetration >= 0
    /\ magnitude_squared(m.normal.num) = m.normal.den * m.normal.den
    /\ m.normal.den > 0
    /\ m.normal.num[1] * distance = sub(centre_b, centre_a)[1] * m.normal.den
    /\ m.normal.num[2] * distance = sub(centre_b, centre_a)[2] * m.normal.den

\* The manifold is the fallback: normal (1,0) and penetration = radius_a.
FallbackManifold(m) ==
    /\ m.normal = Vector2_new(1, 0)
    /\ m.penetration = radius_a

\* C20 as stated: gen_manifold(A,B) returns None exactly when the distance
\* of the centres is greater than radius_a + radius_b; otherwise the
\* manifold is the regular one, except when the centres coincide, where it
\* is the fallback.
C20_FallbackWhenCoinciding ==
    Returned =>
        /\ (op.manifold = None) <=> (distance > radius_a + radius_b)
        /\ op.manifold # None =>
              /\ op.manifold[1].a = op.args[1] /\ op.manifold[1].b = op.args[2]
              /\ IF centre_a = centre_b
                 THEN FallbackManifold(op.manifold[1])
                 ELSE RegularManifold(op.manifold[1])

\* C20, amended: gen_manifold(A,B) returns None exactly when the distance of
\* the centres is greater than radius_a + radius_b; otherwise the manifold
\* is the regular one, except when the distance of the centres is at most
\* f32::EPSILON (coinciding centres included), where it is the fallback.
C20_FallbackWithinEpsilon ==
    Returned =>
        /\ (op.manifold = None) <=> (distance > radius_a + radius_b)
        /\ op.manifold # None =>
              /\ op.manifold[1].a = op.args[1] /\ op.manifold[1].b = op.args[2]
              /\ IF distance <= EPSILON
                 THEN FallbackManifold(op.manifold[1])
                 ELSE RegularManifold(op.manifold[1])

\* gen_manifold has returned the fallback for two centres that do not
\* coincide, B lying above A.
C20_Witness ==
    /\ Returned
    /\ op.manifold # None
    /\ centre_a # centre_b
    /\ distance <= EPSILON
    /\ centre_b[2] > centre_a[2]
    /\ FallbackManifold(op.manifold[1])
    /\ radius_b > radius_a

\* The two bodies, velocities and positions of the store, and the manifold.
body_a == data.bodies[1][1]
body_b == data.bodies[2][1]
velocity_a(d) == d.velocities[1][1].velocity
velocity_b(d) == d.velocities[2][1].velocity
position_a(d) == d.positions[1][1].position
position_b(d) == d.positions[2][1].position

\* The relative velocity along the contact normal.
veln_of(d) == dot(vsub(velocity_b(d), velocity_a(d)), normal_of(op.manifold[1]))

\* The total momentum.
momentum(d) ==
    vadd(scale(velocity_a(d), body_a.mass), scale(velocity_b(d), body_b.mass))

\* C21: when resolve is called for an approaching pair (the relative
\* velocity along the normal is negative) of two finite masses, the relative
\* velocity along the normal afterwards is at least minus the one before
\* times min(restitution_a, restitution_b), and the total momentum
\* mass_a * va + mass_b * vb is the same as before.
C21_RestitutionAndMomentum ==
    [][ ( pc = "resolve" /\ gt(Zero, veln_of(data))
          /\ body_a.mass # Zero /\ body_b.mass # Zero ) =>
            /\ ge(veln_of(data'),
                  neg(mul(veln_of(data), min(body_a.restitution, body_b.restitution))))
            /\ momentum(data') = momentum(data)
            /\ \A i \in 1..2 : is_finite(velocity_a(data')[i])
                               /\ is_finite(velocity_b(data')[i]) ]_vars

\* resolve has changed the velocities of an approaching pair of finite,
\* different masses with restitution 1/2, along a normal that is no axis.
C21_Witness ==
    /\ pc = "correct"
    /\ body_a.mass # Zero /\ body_b.mass # Zero /\ body_a.mass # body_b.mass
    /\ min(body_a.restitution, body_b.restitution) = f32(1, 2)
    /\ op.manifold[1].normal = div(<< 3, 4 >>, 5)
    /\ gt(veln_of(data), Zero)
    /\ velocity_a(data)[1].den > 1

\* C22: a body with zero inverse mass has the same velocity and the same
\* position after resolve and after correct as before, whatever the other
\* body of the pair is, one with zero inverse mass included.
C22_InfiniteMassUnmoved ==
    [][ (pc \in { "resolve", "correct" }) =>
          /\ body_a.rmass = Zero =>
                /\ velocity_a(data') = velocity_a(data)
                /\ position_a(data') = position_a(data)
          /\ body_b.rmass = Zero =>
                /\ velocity_b(data') = velocity_b(data)
                /\ position_b(data') = position_b(data)
      ]_vars

\* Entity e has a slot in column c and a component in it.
Filled(d, c, e) == e < Len(d[c]) /\ d[c][e + 1] # None

\* The entities of the store that carry the Food marker.
FoodEntities(d) == { e \in Entities(d) : Filled(d, "foods", e) }

\* C23 as stated: no entity carrying the Food marker has a Velocity; it has
\* a Position, a Body and its rendering handle and nothing else.
C23_FoodWithoutVelocity ==
    \A e \in FoodEntities(data) :
        /\ ~Filled(data, "velocities", e)
        /\ \A c \in { "positions", "bodies", "draw" } : Filled(data, c, e)
        /\ \A c \in Columns \ { "foods", "positions", "bodies", "draw" } :
              ~Filled(data, c, e)

\* C23, amended: every entity carrying the Food marker has a Velocity next
\* to its Position, its Body and its rendering handle, and nothing else.
C23_FoodWithVelocity ==
    \A e \in FoodEntities(data) :
        /\ \A c \in { "velocities", "positions", "bodies", "draw" } :
              Filled(data, c, e)
        /\ \A c \in Columns \ { "foods", "velocities", "positions", "bodies", "draw" } :
              ~Filled(data, c, e)

\* A tick has spawned food, one food was eaten and cleared before, and the
\* physics pass has run with the new food in the list.
C23_Witness ==
    /\ pc = "commit2"
    /\ panic = NoPanic
    /\ Len(fresh) = 0
    /\ time > 1
    /\ \E e \in FoodEntities(data) : e >= FOOD_COUNT + CREATURE_COUNT
    /\ \E e \in ClearedEntities(data) : e < FOOD_COUNT

\* The ray of the call as whole numbers: its vector, and for entity e the
\* vector from the origin of the ray to its centre, and its radius.
ray_b == << op.args[1].p2[1].num - op.args[1].p1[1].num,
            op.args[1].p2[2].num - op.args[1].p1[2].num >>
ray_a(e) == << data.positions[e + 1][1].position[1].num - op.args[1].p1[1].num,
               data.positions[e + 1][1].position[2].num - op.args[1].p1[2].num >>
radius_of(e) == data.bodies[e + 1][1].radius.num
idot(v, w) == v[1] * w[1] + v[2] * w[2]

\* Entity e is a target of the ray: it is not the caster, its centre
\* projects onto the segment with a parameter t = a.b / b.b in [0,1), and
\* its distance to the line of the ray is at most its radius.
Target(e) ==
    /\ e # op.args[2]
    /\ idot(ray_b, ray_b) # 0
    /\ 0 <= idot(ray_a(e), ray_b)
    /\ idot(ray_a(e), ray_b) < idot(ray_b, ray_b)
    /\ idot(ray_a(e), ray_a(e)) * idot(ray_b, ray_b)
          - idot(ray_a(e), ray_b) * idot(ray_a(e), ray_b)
       <= radius_of(e) * radius_of(e) * idot(ray_b, ray_b)

Targets == { e \in Entities(data) : Target(e) }

\* The distance along the ray of the projection of e's centre.
along(e) == f32(idot(ray_a(e), ray_b), sqrt(idot(ray_b, ray_b)))

heading == data.directions[creatures[1] + 1][1].direction

\* Direction i of RAY_COUNT directions evenly spaced from d - FOV_2 to
\* d + FOV_2.
fan(d, i) ==
    add(minus(d, FOV_2),
        quot(mul(f32(2 * i, 1), FOV_2), f32(RAY_COUNT - 1, 1)))

\* C25: the rays input_system casts for a creature of heading d have the
\* directions evenly spaced from d - FOV_2 to d + FOV_2, ray i having
\* direction i of them, so the directions of two rays are different.
C25_RaysFanOut ==
    (pc = "rays" /\ op.name = "input_system") =>
        /\ \A i \in 1..Len(op.result) : op.result[i] = fan(heading, i - 1)
        /\ \A i, j \in 1..Len(op.result) : i # j => op.result[i] # op.result[j]

\* The output vector of the creature, and the places of its maximum.
outputs_of_creature == data.outputs[creatures[1] + 1][1].output
Maxima ==
    { i \in 1..DIR_COUNT :
        \A j \in 1..DIR_COUNT : ge(outputs_of_creature[i], outputs_of_creature[j]) }
AllEqual == Maxima = 1..DIR_COUNT

\* The least and the greatest element of a set of numbers.
Least(S) == CHOOSE x \in S : \A y \in S : x <= y
Greatest(S) == CHOOSE x \in S : \A y \in S : x >= y

\* C26 as stated: unless all outputs are equal, output_system selects the
\* index of a maximum output, and of several the first, lowest, one.
C26_FirstMaximum ==
    (op.name = "output_system" /\ ~AllEqual) =>
        op.result = Some(Least(Maxima) - 1)

\* C26, amended: unless all outputs are equal, output_system selects the
\* index of a maximum output, and of several the last, highest, one.
C26_LastMaximum ==
    (op.name = "output_system" /\ ~AllEqual) =>
        op.result = Some(Greatest(Maxima) - 1)

\* output_system has selected the last of two maxima, which is neither the
\* first nor the last output.
C26_Witness ==
    /\ op.name = "output_system"
    /\ Maxima = { 1, 3 }
    /\ op.result = Some(2)
    /\ data.directions[1][1].direction = to_radians(f32(180, 1))

\* Index i is a possible outcome of output_system.
Possible(i) == ENABLED ( CallOutputSystem /\ op'.result = Some(i) )

\* C27 as stated: when all outputs are equal, whatever their value, every
\* index 0..DIR_COUNT-1 is a possible outcome of output_system.
C27_RandomWhenEqual ==
    (pc = "output_system" /\ AllEqual) =>
        \A i \in 0..(DIR_COUNT - 1) : Possible(i)

\* C27, amended: when all outputs are equal to 1.0, every index
\* 0..DIR_COUNT-1 is a possible outcome of output_system.
C27_RandomWhenAllOne ==
    (pc = "output_system" /\ \A i \in 1..DIR_COUNT : outputs_of_creature[i] = One) =>
        \A i \in 0..(DIR_COUNT - 1) : Possible(i)

\* output_system has drawn an index that is neither the first nor the last
\* for outputs that are all 1.0.
C27_Witness ==
    /\ op.name = "output_system"
    /\ \A i \in 1..DIR_COUNT : outputs_of_creature[i] = One
    /\ op.result = Some(1)

\* The greatest number of children of a kind.
max_children_of(kind) ==
    IF kind = "Vegan" THEN VEGAN_CHILDREN ELSE CARNIVORE_CHILDREN

\* The next round of the physics pass is for two different creatures of the
\* same kind that are not deleted and may both mate.
MatingDue ==
    /\ pc = "physics"
    /\ panic = NoPanic
    /\ ia <= Len(creatures \o foods)
    /\ pair_a # pair_b
    /\ has(data, "bodies", pair_a) /\ has(data, "bodies", pair_b)
    /\ has(data, "creatures", pair_a) /\ has(data, "creatures", pair_b)
    /\ creature_of(data, pair_a).kind = creature_of(data, pair_b).kind
    /\ creature_of(data, pair_a).timeout < 0
    /\ creature_of(data, pair_b).timeout < 0

half_sum == mul(f32(1, 2), add(op.args[1], op.args[2]))

\* C29: mutate(a, b, factor 0.5, chance 1.0, mutation m) for positive a and
\* b returns a value from 0.5 * (a + b) * (1 - m) to 0.5 * (a + b) * (1 + m),
\* and with chance 0 mutate returns a * factor + b * (1 - factor).
C29_MutateRange ==
    (op.name = "mutate") =>
        /\ ( op.args[3] = f32(1, 2) /\ op.args[4] = One ) =>
              /\ ge(op.result[1], mul(half_sum, minus(One, op.args[5])))
              /\ ge(mul(half_sum, add(One, op.args[5])), op.result[1])
        /\ op.args[4] = Zero =>
              op.result[1] = add(mul(op.args[1], op.args[3]),
                                 mul(op.args[2], minus(One, op.args[3])))

\* mutate with factor 0.5, chance 1.0 and mutation 0.1 has returned more
\* than the mean of two different traits.
C29_Witness ==
    /\ op.name = "mutate"
    /\ op.args[1] # op.args[2]
    /\ op.args[3] = f32(1, 2)
    /\ op.args[4] = One
    /\ op.args[5] = f32(1, 10)
    /\ gt(op.result[1], half_sum)

\* The loop of quit_event is over: op.result is the list that is saved.
Saved == pc = "quit_event" /\ op.name = "quit_event" /\ ia > Len(creatures)

\* The entities whose copies are in the list saved.
saved_entities == { op.result[i].entity : i \in 1..Len(op.result) }

\* C30: with at least TOP_COUNT living creatures of positive life, the list
\* quit_event saves holds TOP_COUNT different creatures of the list and no
\* creature left out has a greater life than one that is saved, whatever
\* the order of the creature list.
C30_TopByLife ==
    ( Saved /\ Len(creatures) >= TOP_COUNT
      /\ \A e \in Range(creatures) : creature_of(data, e).life > 0 ) =>
        /\ Len(op.result) = TOP_COUNT
        /\ Cardinality(saved_entities) = TOP_COUNT
        /\ saved_entities \subseteq Range(creatures)
        /\ \A i \in 1..Len(op.result) :
              op.result[i].creature.life > 0 =>
                  op.result[i].creature = creature_of(data, op.result[i].entity)
        /\ \A e \in Range(creatures) \ saved_entities :
              \A i \in 1..Len(op.result) :
                  creature_of(data, e).life <= op.result[i].creature.life

\* The entities the integration moves, and the closed interval of a
\* coordinate: the world and its margin.
Moved(d) == { e \in Range(creatures) :
                has(d, "velocities", e) /\ has(d, "positions", e) }
Dimension(k) == IF k = 1 THEN WIDTH ELSE HEIGHT
Inside(x, k) == /\ ge(x, neg(f32(RADIUS, 1)))
                /\ ge(f32(Dimension(k) + RADIUS, 1), x)
displacement(d, e, k) == mul(d.velocities[e + 1][1].velocity[k], op.args[1])
Small(d, e, k) == /\ ge(f32(Dimension(k) + RADIUS, 1), displacement(d, e, k))
                  /\ ge(displacement(d, e, k), neg(f32(Dimension(k) + RADIUS, 1)))

\* C31: an entity the integration moves, which started inside the interval
\* on both axes and whose displacement on each axis is at most dimension + R
\* in magnitude, ends inside on both axes; a coordinate that left the
\* interval is shifted by exactly dimension + R back toward it, one that
\* stayed inside is not shifted.
C31_WrapStaysInside ==
    [][ (pc = "integrate") =>
          \A e \in Moved(data) :
              ( \A k \in 1..2 : /\ Inside(data.positions[e + 1][1].position[k], k)
                                /\ Small(data, e, k) ) =>
              \A k \in 1..2 :
                  LET x == add(data.positions[e + 1][1].position[k],
                               displacement(data, e, k))
                      after == data'.positions[e + 1][1].position[k]
                      shift == f32(Dimension(k) + RADIUS, 1)
                  IN  /\ Inside(after, k)
                      /\ lt(x, neg(f32(RADIUS, 1))) => after = add(x, shift)
                      /\ gt(x, shift) => after = minus(x, shift)
                      /\ Inside(x, k) => after = x ]_vars

\* The integration has moved entity 0 from 1/2 out of the interval on the
\* x axis, by -(WIDTH + RADIUS), and the wrap has brought it back to 1/2.
C31_Witness ==
    /\ pc = "done"
    /\ op.name = "integrate"
    /\ 0 \in Moved(data)
    /\ Small(data, 0, 1) /\ Small(data, 0, 2)
    /\ displacement(data, 0, 1) = f32(-(WIDTH + RADIUS), 1)
    /\ data.positions[1][1].position[1] = f32(1, 2)
    /\ Inside(data.positions[1][1].position[2], 2)

\* The ray of the round, the place of the creature that casts it, and the
\* square of the length of the ray as raycast takes it: p2 - p1.
cast_ray == op.args[2]
place_of_caster == data.positions[op.args[1] + 1][1].position
length_squared == fmagnitude_squared(vsub(cast_ray.p2, cast_ray.p1))

\* C32: a ray input_system casts starts at the place p of the creature and
\* ends at p + VIEW_DISTANCE * (cos a, sin a) for a sine and cosine of the
\* direction of the ray, and its length is VIEW_DISTANCE.
C32_RayFromCreature ==
    (pc = "rays" /\ op.name = "input_system") =>
        /\ cast_ray.p1 = place_of_caster
        /\ \E sc \in sin_cos(op.result[Len(op.result)]) :
              cast_ray.p2 = vadd(place_of_caster,
                                 scale(<< sc[2], sc[1] >>,
                                       f32(VIEW_DISTANCE, 1)))
        /\ length_squared = f32(VIEW_DISTANCE * VIEW_DISTANCE, 1)

\* The creature that senses, its Inputs vector, and what raycast returned
\* for its rays.
sensing_creature == op.args[1]
input_of_creature == data.inputs[sensing_creature + 1][1].input
raycast_results == op.args[2]

\* A collision of the creature with entity e would reduce the hunger of the
\* creature in physics_system, whichever of the two comes first in the pair.
Valuable(e) ==
    \E pair \in { << sensing_creature, e >>, << e, sensing_creature >> } :
        collide(data, pair[1], pair[2], Zero).data
            .creatures[sensing_creature + 1][1].hunger
        < data.creatures[sensing_creature + 1][1].hunger

\* C33: once input_system has written the Inputs of a creature, the vector
\* has length 2 * RAY_COUNT; for a ray with a hit the class feature is 1.0
\* exactly when a collision with the entity hit would reduce the hunger of
\* the creature, else 0.0 or 0.5; for a ray without a hit the pair is
\* (1.0, 1.0).
C33_ClassFollowsNutrition ==
    (pc = "done" /\ op.name = "input_system") =>
        /\ Len(input_of_creature) = 2 * RAY_COUNT
        /\ \A i \in 1..Len(raycast_results) :
              IF raycast_results[i] = None
              THEN /\ input_of_creature[2 * i - 1] = One
                   /\ input_of_creature[2 * i] = One
              ELSE /\ input_of_creature[2 * i - 1] \in { Zero, f32(1, 2), One }
                   /\ input_of_creature[2 * i - 1] = One
                        <=> Valuable(raycast_results[i][1][1])

\* The vector the claim expects at the first layer in a tick: the output
\* vector of the tick before, which the Outputs of the creature still holds
\* when nn_system starts (zeros before the first tick), then the input.
expected_layer ==
    data.outputs[creatures[1] + 1][1].output \o data.inputs[creatures[1] + 1][1].input

\* C34: in every tick nn_system feeds the first layer, in feedforward and
\* in update, the output vector of the tick before (zeros in the first
\* tick) followed by the input of the tick; the length of what is fed is
\* input_size + output_size.
C34_PreviousOutputFed ==
    [][ (pc = "nn_system") =>
          /\ Len(op'.args) = 2
          /\ \A k \in 1..Len(op'.args) :
                /\ op'.args[k] = expected_layer
                /\ Len(op'.args[k]) = data.nns[creatures[1] + 1][1].weights[1][1] ]_vars

\* The effects of the current tick that the pair {a, b} had, in either
\* order of the pair.
EffectsOfPair(what, a, b) ==
    { i \in 1..Len(effects) :
        /\ effects[i][1] = what
        /\ { effects[i][2], effects[i][3] } = { a, b } }

\* The hunger reductions of the current tick that came from eating e.
TimesEaten(e) ==
    { i \in 1..Len(effects) : effects[i][1] = "eat" /\ effects[i][3] = e }

\* C35: within one tick the two visits of a pair, (a, b) and (b, a), have
\* the effect of the pair at most once: at most one hunger reduction and at
\* most one mating for the pair, and an entity is eaten at most once.
C35_EffectOncePerPair ==
    /\ \A a, b \in Entities(data) :
          /\ Cardinality(EffectsOfPair("eat", a, b)) <= 1
          /\ Cardinality(EffectsOfPair("mate", a, b)) <= 1
    /\ \A e \in Entities(data) : Cardinality(TimesEaten(e)) <= 1

\* The pass has visited a pair in both orders, and the pair has eaten or
\* mated at the first of the two visits.
C35_Witness ==
    /\ pc = "physics"
    /\ panic = NoPanic
    /\ \E i \in 1..Len(effects) :
          LET a == effects[i][2]
              b == effects[i][3]
              left == creatures \o foods
              at(e) == CHOOSE k \in 1..Len(left) : left[k] = e
          IN  /\ a \in Range(left) /\ b \in Range(left)
              /\ ia > at(a) /\ ia > at(b)

\* What the aging loops between events i and j of the run have subtracted
\* from a timeout in total.
RECURSIVE Aged(_, _)
Aged(i, j) ==
    IF i + 1 >= j THEN 0
    ELSE ( IF effects[i + 1][1] = "age" THEN effects[i + 1][2] ELSE 0 )
         + Aged(i + 1, j)

\* Event i of the run is a mating that entity e takes part in.
Mates(i, e) == effects[i][1] = "mate" /\ e \in { effects[i][2], effects[i][3] }

\* The event that created e: its birth, or the start of the run.
BornAt(e) ==
    IF \E i \in 1..Len(effects) : effects[i] = << "born", e >>
    THEN CHOOSE i \in 1..Len(effects) : effects[i] = << "born", e >>
    ELSE 0

\* C36: a creature that has just mated has the cooldown of its kind as its
\* timeout, and so has an offspring that has just been created; between two
\* matings of a creature, and between its creation and its first mating,
\* the aging loops have subtracted more than the cooldown in total, so that
\* it mates at most once in a tick.
C36_CooldownBetweenMatings ==
    /\ \A j \in 1..Len(effects), e \in Entities(data) :
          Mates(j, e) =>
              /\ Aged(BornAt(e), j) > cooldown(op.args[1])
              /\ \A i \in 1..(j - 1) :
                    Mates(i, e) => Aged(i, j) > cooldown(op.args[1])
    /\ ( panic = NoPanic /\ effects # << >> ) =>
          LET last == effects[Len(effects)]
          IN  /\ last[1] = "mate" =>
                    /\ creature_of(data, last[2]).timeout = cooldown(op.args[1])
                    /\ creature_of(data, last[3]).timeout = cooldown(op.args[1])
              /\ last[1] = "born" =>
                    creature_of(data, last[2]).timeout = cooldown(op.args[1])

\* A creature has mated a second time, and an offspring has mated.
C36_Witness ==
    /\ panic = NoPanic
    /\ \E i, j \in 1..Len(effects), e \in Entities(data) :
          i < j /\ Mates(i, e) /\ Mates(j, e)
    /\ \E j \in 1..Len(effects), e \in Entities(data) :
          Mates(j, e) /\ BornAt(e) > 0

\* C37: the deletion set only grows: an entity delete was called for is in
\* it and stays in it through every later operation, commit and insert
\* included, and has is false for each of its components.
C37_DeletionPermanent ==
    [][ /\ marked' \subseteq data'.delete
        /\ data.delete \subseteq data'.delete
        /\ \A e \in data'.delete, c \in Columns : ~has(data', c, e) ]_vars

\* An entity was deleted, a commit has cleared it, and an insert has given
\* it a component since, which has does not report.
C37_Witness ==
    /\ pc = "store"
    /\ panic = NoPanic
    /\ \E e \in data.delete \ marked :
          /\ data.creatures[e + 1] # None
          /\ ~has(data, "creatures", e)

\* update stands at the start of the physics pass or of one of the three
\* network passes.
PassStart ==
    /\ panic = NoPanic
    /\ \/ pc = "physics" /\ ia = 1 /\ ib = 1
       \/ pc \in { "sensing", "inference", "output" }

\* The entities that are neither pending deletion nor tombstoned and hold
\* a component in array c.
Live(c) ==
    { e \in Entities(data) : e \notin data.delete /\ data[c][e + 1] # None }

\* C38: at the start of the physics pass and of each network pass the
\* creature list and the food list are disjoint, hold no entity twice, hold
\* no entity that is pending deletion or tombstoned, and hold between them
\* every live entity with a Creature or a Food.
C38_ListsMatchStore ==
    PassStart =>
        /\ Range(creatures) \cap Range(foods) = {}
        /\ NoDuplicates(creatures)
        /\ NoDuplicates(foods)
        /\ \A e \in Range(creatures \o foods) :
              /\ e \in Entities(data)
              /\ e \notin data.delete
              /\ ~SlotsEmpty(data, e)
        /\ Range(creatures) = Live("creatures")
        /\ Range(foods) = Live("foods")

\* The sensing pass starts after a commit that has removed an entity from
\* its list and added an offspring to the creature list.
C38_Witness ==
    /\ PassStart
    /\ pc = "sensing"
    /\ op.name = "commit"
    /\ op.removed # << >>
    /\ op.created # << >>
    /\ Range(op.created) \subseteq Range(creatures)

\* The deferred creation buffer of d holds nothing and its removal queue is
\* empty.
BufferEmpty(d) ==
    /\ NothingQueued(d)
    /\ \A c \in LazyColumns : d.lazy[c] = << >>

\* update is about to run: the previous tick, if any, has returned.
TickStart == pc = "idle" /\ panic = NoPanic

\* The commit that follows aging has just returned.
AfterAgingCommit ==
    /\ pc = "physics" /\ ia = 1 /\ ib = 1
    /\ op.name = "commit" /\ panic = NoPanic

\* C39: at the start of every tick, which is where food is created eagerly,
\* the deferred creation buffer and the removal queue are empty; the commit
\* that follows aging creates no entity; and no index a commit assigns to a
\* buffered creation was assigned before, eagerly or by a commit.
C39_BufferEmptyAtTickStart ==
    [][ /\ TickStart => BufferEmpty(data)
        /\ Len(foods') > Len(foods) => BufferEmpty(data)
        /\ AfterAgingCommit' => ( op'.created = << >> /\ fresh' = << >> )
        /\ ( op'.name = "commit" /\ generation' = generation ) =>
              Range(op'.created) \cap HandedIn(generation) = {} ]_vars

\* The commit after aging has returned with starved creatures removed and
\* nothing created, in a tick that was started with food on the board and
\* with entities that the commits of earlier ticks had removed.
C39_Witness ==
    /\ AfterAgingCommit
    /\ op.removed # << >>
    /\ op.created = << >>
    /\ foods # << >>
    /\ BufferEmpty(data)
    /\ \E e \in data.delete : e \notin Range(op.removed)

\* The carnivorous creatures of the saved list.
LoadedCarnivores ==
    { i \in 1..Len(op.args[1]) : op.args[1][i][1].kind = "Carnivorous" }

\* C40: seeding from a saved list of at most CREATURE_COUNT pairs of any
\* kinds never underflows new_count or carnivores (no overflow panic, no
\* wrapped value), and the state returned has exactly CREATURE_COUNT
\* creatures and FOOD_COUNT foods.
C40_SeedingExact ==
    /\ panic # Overflow
    /\ op.result.new_count >= 0
    /\ op.result.carnivores >= 0
    /\ op.name = "seeded" =>
          /\ Len(creatures) = CREATURE_COUNT
          /\ Len(foods) = FOOD_COUNT

=============================================================================
